---- MODULE Spec2Model ----
(***************************************************************************)
(* Exam-question segmentation and retrieval pipeline of EXAM-V1:           *)
(*   - the text-pattern detectors (regex over OCR text),                    *)
(*   - the process-exam-paper ingestion handlers and the exam_questions    *)
(*     table they write,                                                    *)
(*   - the chat client (ExamViewer.handleSendMessage) and the              *)
(*     exam-assistant handler that selects the images sent to the AI.      *)
(* Text is a sequence of one-character strings, so that the regular        *)
(* expressions of the source are modelled by what they match.              *)
(***************************************************************************)
EXTENDS Integers, Sequences, FiniteSets, TLC

-----------------------------------------------------------------------------
(* Characters and the string helpers of the JavaScript runtime.            *)

DigitChars == {"0", "1", "2", "3", "4", "5", "6", "7", "8", "9"}

LowerSeq == <<"a", "b", "c", "d", "e", "f", "g", "h", "i", "j", "k", "l", "m",
              "n", "o", "p", "q", "r", "s", "t", "u", "v", "w", "x", "y", "z">>

UpperSeq == <<"A", "B", "C", "D", "E", "F", "G", "H", "I", "J", "K", "L", "M",
              "N", "O", "P", "Q", "R", "S", "T", "U", "V", "W", "X", "Y", "Z">>

IsDigit(c) == c \in DigitChars

IsLower(c) == \E i \in DOMAIN LowerSeq : LowerSeq[i] = c

IsUpper(c) == \E i \in DOMAIN UpperSeq : UpperSeq[i] = c

IsLetter(c) == IsLower(c) \/ IsUpper(c)

\* \s of the regular expressions
IsSpace(c) == c \in {" ", "\n", "\t"}

\* \w of the regular expressions
IsWordChar(c) == IsDigit(c) \/ IsLetter(c) \/ c = "_"

\* the character at index i, or "" (no character) outside the string
At(s, i) == IF i >= 1 /\ i <= Len(s) THEN s[i] ELSE ""

toLowerCaseChar(c) ==
    IF IsUpper(c) THEN LowerSeq[CHOOSE i \in DOMAIN UpperSeq : UpperSeq[i] = c] ELSE c

toLowerCase(s) == IF Len(s) = 0 THEN <<>> ELSE [i \in 1..Len(s) |-> toLowerCaseChar(s[i])]

RECURSIVE SkipWs(_, _)
\* end of a greedy \s* that starts at index i: the first index >= i that is no space
SkipWs(s, i) == IF i <= Len(s) /\ IsSpace(s[i]) THEN SkipWs(s, i + 1) ELSE i

RECURSIVE DigitsEnd(_, _)
\* end of a greedy \d+ that starts at index i: the first index >= i that is no digit
DigitsEnd(s, i) == IF i <= Len(s) /\ IsDigit(s[i]) THEN DigitsEnd(s, i + 1) ELSE i

RECURSIVE WsRunStart(_, _)
\* start of the maximal run of spaces that ends right before index p
WsRunStart(s, p) == IF p > 1 /\ IsSpace(s[p - 1]) THEN WsRunStart(s, p - 1) ELSE p

RECURSIVE TrimEnd(_)
TrimEnd(s) == IF Len(s) > 0 /\ IsSpace(s[Len(s)]) THEN TrimEnd(SubSeq(s, 1, Len(s) - 1)) ELSE s

\* String.prototype.trim
trim(s) == LET t == TrimEnd(s) IN SubSeq(t, SkipWs(t, 1), Len(t))

\* case-insensitive test that the word w (lower case) occurs in s at index p
MatchesAtCI(s, p, w) ==
    /\ p >= 1
    /\ p + Len(w) - 1 <= Len(s)
    /\ \A k \in 1..Len(w) : toLowerCaseChar(s[p + k - 1]) = w[k]

RECURSIVE split(_)
\* text.split("\n")
split(s) ==
    IF \E i \in 1..Len(s) : s[i] = "\n"
    THEN LET i == CHOOSE j \in 1..Len(s) : s[j] = "\n" /\ \A k \in 1..(j - 1) : s[k] # "\n"
         IN <<SubSeq(s, 1, i - 1)>> \o split(SubSeq(s, i + 1, Len(s)))
    ELSE <<s>>

RECURSIVE join(_, _)
\* array.join(sep)
join(parts, sep) ==
    IF Len(parts) = 0 THEN <<>>
    ELSE IF Len(parts) = 1 THEN parts[1]
    ELSE parts[1] \o sep \o join(Tail(parts), sep)

\* array.slice(0, n)
slice0(a, n) == SubSeq(a, 1, IF Len(a) < n THEN Len(a) ELSE n)

\* the capture (\d+[a-z]?) that starts at index n; anyCase is the i flag
Capture(s, n, anyCase) ==
    LET e == DigitsEnd(s, n)
        c == At(s, e)
    IN IF IsLower(c) \/ (anyCase /\ IsUpper(c)) THEN SubSeq(s, n, e) ELSE SubSeq(s, n, e - 1)

\* the smallest element of a non-empty set of integers
Min(S) == CHOOSE x \in S : \A y \in S : x <= y

-----------------------------------------------------------------------------
(* Text-pattern detector of the regex + Gemini ingestion.                  *)

\* number of leading lines of a page that are searched for a marker
FirstLinesWindow == 10

\* (?:^|\n)\s* : index p is preceded, back to a line start, by spaces only
LineLeading(s, p) ==
    LET b == WsRunStart(s, p)
    IN b = 1 \/ \E j \in b..(p - 1) : s[j] = "\n"

\* (?:Question|Q\.?)\s*(\d+ at index p: the index where the digits start, or 0
KeywordNumberStart(s, p) ==
    LET nq == SkipWs(s, p + 8)
        afterQ == IF At(s, p + 1) = "." THEN p + 2 ELSE p + 1
        n == SkipWs(s, afterQ)
    IN IF MatchesAtCI(s, p, <<"q", "u", "e", "s", "t", "i", "o", "n">>) /\ IsDigit(At(s, nq))
       THEN nq
       ELSE IF MatchesAtCI(s, p, <<"q">>) /\ IsDigit(At(s, n)) THEN n ELSE 0

\* /(?:^|\n)\s*(?:Question|Q\.?)\s*(\d+[a-z]?)\s*[\.:)]?/gim : match[1] of the
\* first match, or <<>> when there is none
ExecKeywordPattern(s) ==
    LET hits == {p \in 1..Len(s) : LineLeading(s, p) /\ KeywordNumberStart(s, p) # 0}
    IN IF hits = {} THEN <<>> ELSE Capture(s, KeywordNumberStart(s, Min(hits)), TRUE)

\* (\d+[a-z]?)\s*[\.:)] at index p (no i flag: lower-case suffix only)
NumberPunctAt(s, p) ==
    LET e == DigitsEnd(s, p)
        e2 == IF IsLower(At(s, e)) THEN e + 1 ELSE e
    IN IsDigit(At(s, p)) /\ At(s, SkipWs(s, e2)) \in {".", ":", ")"}

\* /(?:^|\n)\s*(\d+[a-z]?)\s*[\.:)]\s*/gm : match[1] of the first match, or <<>>
ExecNumberPattern(s) ==
    LET hits == {p \in 1..Len(s) : LineLeading(s, p) /\ NumberPunctAt(s, p)}
    IN IF hits = {} THEN <<>> ELSE Capture(s, Min(hits), FALSE)

\* the marker detected on one page: the first pattern that matches wins;
\* <<>> is null
DetectOnPage(ocrText) ==
    LET firstLines == join(slice0(split(ocrText), FirstLinesWindow), <<"\n">>)
        m1 == ExecKeywordPattern(firstLines)
        m2 == ExecNumberPattern(firstLines)
    IN IF m1 # <<>> THEN toLowerCase(trim(m1))
       ELSE IF m2 # <<>> THEN toLowerCase(trim(m2))
       ELSE <<>>

\* a question group; ocrTexts holds one text per attached page
Group(qn, page) ==
    [questionNumber |-> qn, pageNumbers |-> <<page.pageNumber>>, ocrTexts |-> <<page.ocrText>>]

\* an iteration that leaves a page without a marker out of the open group
DetectStepNoAttach(st, page) ==
    LET detected == DetectOnPage(page.ocrText)
    IN IF detected # <<>>
       THEN [groups |-> st.groups \o st.current, current |-> <<Group(detected, page)>>]
       ELSE IF st.current # <<>> THEN st
       ELSE [groups |-> st.groups, current |-> <<Group(<<"1">>, page)>>]

\* one iteration of the loop over pages; st.current is <<>> (null) or <<group>>
DetectStep(st, page) ==
    LET detected == DetectOnPage(page.ocrText)
    IN IF detected # <<>>
       THEN [groups |-> st.groups \o st.current, current |-> <<Group(detected, page)>>]
       ELSE IF st.current # <<>>
       THEN [groups |-> st.groups,
             current |-> <<[st.current[1] EXCEPT
                              !.pageNumbers = Append(@, page.pageNumber),
                              !.ocrTexts = Append(@, page.ocrText)]>>]
       ELSE [groups |-> st.groups, current |-> <<Group(<<"1">>, page)>>]

RECURSIVE DetectLoop(_, _)
DetectLoop(st, pages) ==
    IF Len(pages) = 0 THEN st ELSE DetectLoop(DetectStep(st, Head(pages)), Tail(pages))

\* detectAndGroupQuestions(pagesWithOCR) of the regex + Gemini ingestion
detectAndGroupQuestions(pagesWithOCR) ==
    LET st == DetectLoop([groups |-> <<>>, current |-> <<>>], pagesWithOCR)
    IN st.groups \o st.current

-----------------------------------------------------------------------------
(* The stand-alone QuestionDetector class.                                 *)

\* /^(?:\s*)(\d{1,2})(?=\s)/m on one line: match[1], or <<>> when no match
MatchMainQuestionPattern(line) ==
    LET n == SkipWs(line, 1)
    IN IF IsDigit(At(line, n)) /\ IsDigit(At(line, n + 1)) /\ IsSpace(At(line, n + 2))
       THEN SubSeq(line, n, n + 1)
       ELSE IF IsDigit(At(line, n)) /\ IsSpace(At(line, n + 1))
       THEN SubSeq(line, n, n)
       ELSE <<>>

\* one iteration of the inner loop over the lines of a page
LineStep(cur, pageNumber, line) ==
    LET match == MatchMainQuestionPattern(line)
    IN IF match # <<>>
       THEN [groups |-> cur.groups \o cur.currentQuestion,
             currentQuestion |-> <<[questionNumber |-> match,
                                    pageNumbers |-> <<pageNumber>>,
                                    fullText |-> trim(line)]>>]
       ELSE IF cur.currentQuestion # <<>>
       THEN LET q == cur.currentQuestion[1]
                includes == \E i \in 1..Len(q.pageNumbers) : q.pageNumbers[i] = pageNumber
            IN [groups |-> cur.groups,
                currentQuestion |->
                    <<[q EXCEPT !.pageNumbers = IF includes THEN @ ELSE Append(@, pageNumber),
                                !.fullText = @ \o <<"\n">> \o trim(line)]>>]
       ELSE cur

RECURSIVE LinesLoop(_, _, _)
LinesLoop(cur, pageNumber, lines) ==
    IF Len(lines) = 0 THEN cur
    ELSE LinesLoop(LineStep(cur, pageNumber, Head(lines)), pageNumber, Tail(lines))

RECURSIVE PagesLoop(_, _)
PagesLoop(cur, pages) ==
    IF Len(pages) = 0 THEN cur
    ELSE PagesLoop(LinesLoop(cur, Head(pages).pageNumber, split(Head(pages).ocrText)),
                   Tail(pages))

\* QuestionDetector.detectAndGroupQuestions(pagesWithOCR)
QuestionDetector_detectAndGroupQuestions(pagesWithOCR) ==
    LET cur == PagesLoop([groups |-> <<>>, currentQuestion |-> <<>>], pagesWithOCR)
    IN cur.groups \o cur.currentQuestion

\* QuestionDetector.parseQuestionNumberFromQuery: /(?:question|q|Q\.?)\s*(\d+)/i,
\* match[1].trim(), or <<>> (null)
QueryNumberStart(s, p) ==
    LET nq == SkipWs(s, p + 8)
        n1 == SkipWs(s, p + 1)
        n2 == SkipWs(s, p + 2)
    IN IF MatchesAtCI(s, p, <<"q", "u", "e", "s", "t", "i", "o", "n">>) /\ IsDigit(At(s, nq))
       THEN nq
       ELSE IF MatchesAtCI(s, p, <<"q">>) /\ IsDigit(At(s, n1)) THEN n1
       ELSE IF MatchesAtCI(s, p, <<"q">>) /\ At(s, p + 1) = "." /\ IsDigit(At(s, n2)) THEN n2
       ELSE 0

parseQuestionNumberFromQuery(query) ==
    LET hits == {p \in 1..Len(query) : QueryNumberStart(query, p) # 0}
    IN IF hits = {} THEN <<>>
       ELSE LET n == QueryNumberStart(query, Min(hits))
            IN trim(SubSeq(query, n, DigitsEnd(query, n) - 1))

-----------------------------------------------------------------------------
(* The question-number extractor of the chat client.                       *)

\* /question\s*(\d+[a-z]?)/i
ExecQuestionWord(text) ==
    LET starts(p) == SkipWs(text, p + 8)
        hits == {p \in 1..Len(text) :
                    /\ MatchesAtCI(text, p, <<"q", "u", "e", "s", "t", "i", "o", "n">>)
                    /\ IsDigit(At(text, starts(p)))}
    IN IF hits = {} THEN <<>> ELSE Capture(text, starts(Min(hits)), TRUE)

\* /q\.?\s*(\d+[a-z]?)/i
ExecQLetter(text) ==
    LET starts(p) == SkipWs(text, IF At(text, p + 1) = "." THEN p + 2 ELSE p + 1)
        hits == {p \in 1..Len(text) :
                    MatchesAtCI(text, p, <<"q">>) /\ IsDigit(At(text, starts(p)))}
    IN IF hits = {} THEN <<>> ELSE Capture(text, starts(Min(hits)), TRUE)

\* /^(\d+[a-z]?)\b/i
ExecLeadingNumber(text) ==
    LET e == DigitsEnd(text, 1)
        e2 == IF IsLetter(At(text, e)) THEN e + 1 ELSE e
    IN IF IsDigit(At(text, 1)) /\ ~IsWordChar(At(text, e2)) THEN SubSeq(text, 1, e2 - 1)
       ELSE <<>>

\* extractQuestionNumber(text): the first pattern that matches, lower-cased;
\* <<>> is null
extractQuestionNumber(text) ==
    LET m1 == ExecQuestionWord(text)
        m2 == ExecQLetter(text)
        m3 == ExecLeadingNumber(text)
    IN IF m1 # <<>> THEN toLowerCase(m1)
       ELSE IF m2 # <<>> THEN toLowerCase(m2)
       ELSE IF m3 # <<>> THEN toLowerCase(m3)
       ELSE <<>>

-----------------------------------------------------------------------------
(* The exam_questions table and the exam-questions storage bucket.         *)

\* a row of exam_questions; image_url <<>> is NULL or ''
Row(paper, qn, pages, text, url) ==
    [exam_paper_id |-> paper, question_number |-> qn, page_numbers |-> pages,
     ocr_text |-> text, image_url |-> url]

SameKey(r, row) ==
    r.exam_paper_id = row.exam_paper_id /\ r.question_number = row.question_number

\* the unique constraint on (exam_paper_id, question_number) that the
\* onConflict target of the upserts names
UniqueViolation(tbl, row) == \E i \in 1..Len(tbl) : SameKey(tbl[i], row)

\* a buggy upsert that always adds a row
upsertAlwaysAdds(tbl, row) == Append(tbl, row)

\* supabase.from('exam_questions').upsert(row, {onConflict: 'exam_paper_id,question_number'})
upsert(tbl, row) ==
    IF \E i \in 1..Len(tbl) : SameKey(tbl[i], row)
    THEN [i \in 1..Len(tbl) |-> IF SameKey(tbl[i], row) THEN row ELSE tbl[i]]
    ELSE Append(tbl, row)

\* the same upsert with a payload that has no image_url column: a new row gets
\* NULL, a conflicting row keeps the image_url it has
upsertWithoutImageUrl(tbl, row) ==
    IF \E i \in 1..Len(tbl) : SameKey(tbl[i], row)
    THEN [i \in 1..Len(tbl) |->
             IF SameKey(tbl[i], row) THEN [row EXCEPT !.image_url = tbl[i].image_url]
             ELSE tbl[i]]
    ELSE Append(tbl, [row EXCEPT !.image_url = <<>>])

\* supabase.from('exam_questions').insert(row): {table, error}
insert(tbl, row) ==
    IF UniqueViolation(tbl, row) THEN [table |-> tbl, error |-> TRUE]
    ELSE [table |-> Append(tbl, row), error |-> FALSE]

\* an upload that keeps the object already stored under the name
uploadAlwaysAdds(bucket, name, data) == bucket \cup {[name |-> name, data |-> data]}

\* storage.from('exam-questions').upload(name, data, {upsert: true})
upload(bucket, name, data) ==
    {o \in bucket : o.name # name} \cup {[name |-> name, data |-> data]}

\* questionNumber.replace(/[^a-zA-Z0-9]/g, '_')
cleanQuestionNum(qn) ==
    IF Len(qn) = 0 THEN <<>>
    ELSE [i \in 1..Len(qn) |-> IF IsDigit(qn[i]) \/ IsLetter(qn[i]) THEN qn[i] ELSE "_"]

\* `${examPaperId}/question_${cleanQuestionNum}.jpg`; the public URL of an
\* object is modelled by its name
fileName(paper, qn) == <<paper, "question_", cleanQuestionNum(qn)>>

\* `${examPaperId}/q_${...}.jpg` of the Gemini 2.0 Flash ingestion
fileNameQ(paper, qn) == <<paper, "q_", cleanQuestionNum(qn)>>

\* one page image of a request; the image bytes are modelled by the page number
PageImage(n) == [pageNumber |-> n, base64Image |-> n]

\* loadImage(Buffer.from(base64Image, 'base64')) does not throw; bytes that
\* are no image are modelled by a negative number
Decodes(base64Image) == base64Image > 0

\* pageImages.filter(p => p.pageNumber >= q.startPage && p.pageNumber <= q.endPage)
relevantPages(pageImages, q) ==
    SelectSeq(pageImages, LAMBDA p : p.pageNumber >= q.startPage /\ p.pageNumber <= q.endPage)

PageNumbersOf(pages) == [i \in 1..Len(pages) |-> pages[i].pageNumber]

-----------------------------------------------------------------------------
(* Generative ingestion (process-exam-paper, Gemini only).                 *)

\* the validQuestions filter of extractAndSplitQuestions. pagesAreNumbers:
\* typeof startPage and typeof endPage are 'number'; FALSE for pages that the
\* answer gives as strings ("2"), and for absent pages, which are 0 here
IsValidQuestion(q) == q.questionNumber # <<>> /\ q.pagesAreNumbers /\ q.fullText # <<>>

\* extractAndSplitQuestions after the response is parsed: the valid items
\* (extractFullTextForQuestions returns every question it is given)
extractAndSplitQuestions(items) == SelectSeq(items, IsValidQuestion)

\* the validQuestions filter of analyzeExamPaperWithGemini: truthy pages (a
\* number other than 0, or a string), startPage <= endPage (for pages below 10
\* the comparison of two strings is the comparison of the numbers); the text
\* is not looked at
IsValidQuestionData(q) ==
    /\ q.questionNumber # <<>>
    /\ q.startPage # 0
    /\ q.endPage # 0
    /\ q.startPage <= q.endPage

analyzeExamPaperWithGemini(items) == SelectSeq(items, IsValidQuestionData)

\* the first version of saveQuestionImages: the first page is the image of the
\* question; a failed upload throws and the question is skipped.
\* acc = [results, bucket]; failed = indexes of the questions whose upload fails
RECURSIVE saveFirstPageLoop(_, _, _, _, _, _)
saveFirstPageLoop(questions, i, pageImages, paper, failed, acc) ==
    IF i > Len(questions) THEN acc
    ELSE LET q == questions[i]
             rel == relevantPages(pageImages, q)
             name == fileName(paper, q.questionNumber)
             next ==
                IF Len(rel) = 0 \/ i \in failed THEN acc
                ELSE [results |-> Append(acc.results,
                                         [questionNumber |-> q.questionNumber,
                                          pageNumbers |-> PageNumbersOf(rel),
                                          fullText |-> q.fullText,
                                          imageUrl |-> name]),
                      bucket |-> upload(acc.bucket, name, <<[src |-> rel[1].base64Image, cropped |-> FALSE]>>)]
         IN saveFirstPageLoop(questions, i + 1, pageImages, paper, failed, next)

saveQuestionImagesFirstPage(questions, pageImages, bucket, paper, failed) ==
    saveFirstPageLoop(questions, 1, pageImages, paper, failed,
                      [results |-> <<>>, bucket |-> bucket])

\* an image as stored: its source page image and whether the top band is cropped
Image(src, cropped) == [src |-> src, cropped |-> cropped]

\* cropBarcodeFromBase64: the image without its top band; the original image
\* when the bytes do not decode (the catch resolves with base64Image)
cropBarcodeFromBase64(base64Image) ==
    IF Decodes(base64Image) THEN Image(base64Image, TRUE) ELSE Image(base64Image, FALSE)

\* stitchImagesVertically: [ok, image]. One page: the cropped page. Several
\* pages: every page is cropped and then loaded again, placed top to bottom in
\* the order given; the second loadImage throws for bytes that do not decode,
\* and the function rethrows
stitchImagesVertically(base64Images) ==
    IF Len(base64Images) = 0 THEN [ok |-> FALSE, image |-> <<>>]
    ELSE IF Len(base64Images) = 1
    THEN [ok |-> TRUE, image |-> <<cropBarcodeFromBase64(base64Images[1])>>]
    ELSE IF \A k \in 1..Len(base64Images) : Decodes(base64Images[k])
    THEN [ok |-> TRUE,
          image |-> [k \in 1..Len(base64Images) |-> cropBarcodeFromBase64(base64Images[k])]]
    ELSE [ok |-> FALSE, image |-> <<>>]

\* a loop that stops at the first question whose image fails
RECURSIVE saveStitchedLoopAborting(_, _, _, _, _, _)
saveStitchedLoopAborting(questions, i, pageImages, paper, failed, acc) ==
    IF i > Len(questions) THEN acc
    ELSE LET q == questions[i]
             rel == relevantPages(pageImages, q)
             name == fileName(paper, q.questionNumber)
             stitched == stitchImagesVertically([k \in 1..Len(rel) |-> rel[k].base64Image])
         IN IF Len(rel) = 0 \/ ~stitched.ok \/ i \in failed THEN acc
            ELSE saveStitchedLoopAborting(questions, i + 1, pageImages, paper, failed,
                    [results |-> Append(acc.results,
                                        [questionNumber |-> q.questionNumber,
                                         pageNumbers |-> PageNumbersOf(rel),
                                         fullText |-> q.fullText,
                                         imageUrl |-> name]),
                     bucket |-> upload(acc.bucket, name, stitched.image)])

\* the current saveQuestionImages: the stitched pages are the image
RECURSIVE saveStitchedLoop(_, _, _, _, _, _)
saveStitchedLoop(questions, i, pageImages, paper, failed, acc) ==
    IF i > Len(questions) THEN acc
    ELSE LET q == questions[i]
             rel == relevantPages(pageImages, q)
             name == fileName(paper, q.questionNumber)
             stitched == stitchImagesVertically([k \in 1..Len(rel) |-> rel[k].base64Image])
             next ==
                IF Len(rel) = 0 \/ ~stitched.ok \/ i \in failed THEN acc
                ELSE [results |-> Append(acc.results,
                                         [questionNumber |-> q.questionNumber,
                                          pageNumbers |-> PageNumbersOf(rel),
                                          fullText |-> q.fullText,
                                          imageUrl |-> name]),
                      bucket |-> upload(acc.bucket, name, stitched.image)]
         IN saveStitchedLoop(questions, i + 1, pageImages, paper, failed, next)

saveQuestionImages(questions, pageImages, bucket, paper, failed) ==
    saveStitchedLoop(questions, 1, pageImages, paper, failed,
                     [results |-> <<>>, bucket |-> bucket])

\* processQuestionImages: a failed upload leaves imageUrl '' and the question
\* is still returned
RECURSIVE processImagesLoop(_, _, _, _, _, _)
processImagesLoop(questions, i, pageImages, paper, failed, acc) ==
    IF i > Len(questions) THEN acc
    ELSE LET q == questions[i]
             rel == relevantPages(pageImages, q)
             name == fileNameQ(paper, q.questionNumber)
             next ==
                IF Len(rel) = 0 THEN acc
                ELSE [results |-> Append(acc.results,
                                         [questionNumber |-> q.questionNumber,
                                          pageNumbers |-> PageNumbersOf(rel),
                                          fullText |-> q.fullText,
                                          imageUrl |-> IF i \in failed THEN <<>> ELSE name]),
                      bucket |-> IF i \in failed THEN acc.bucket
                                 ELSE upload(acc.bucket, name, <<[src |-> rel[1].base64Image, cropped |-> FALSE]>>)]
         IN processImagesLoop(questions, i + 1, pageImages, paper, failed, next)

processQuestionImages(questions, pageImages, bucket, paper, failed) ==
    processImagesLoop(questions, 1, pageImages, paper, failed,
                      [results |-> <<>>, bucket |-> bucket])

\* the row written for a saved question
RowOf(paper, q) == Row(paper, q.questionNumber, q.pageNumbers, q.fullText, q.imageUrl)

\* for (const q of savedQuestions) await upsert(...)
RECURSIVE upsertAll(_, _, _)
upsertAll(tbl, paper, saved) ==
    IF Len(saved) = 0 THEN tbl
    ELSE upsertAll(upsert(tbl, RowOf(paper, Head(saved))), paper, Tail(saved))

\* for (const q of savedQuestions) { insert(...); savedCount++ or errorCount++ }
RECURSIVE insertAll(_, _, _)
insertAll(acc, paper, saved) ==
    IF Len(saved) = 0 THEN acc
    ELSE LET r == insert(acc.table, RowOf(paper, Head(saved)))
         IN insertAll([table |-> r.table,
                       savedCount |-> acc.savedCount + (IF r.error THEN 0 ELSE 1),
                       errorCount |-> acc.errorCount + (IF r.error THEN 1 ELSE 0)],
                      paper, Tail(saved))

RowsOf(paper, saved) == [i \in 1..Len(saved) |-> RowOf(paper, saved[i])]

\* the outcome of one run of an ingestion handler
Outcome(tbl, bucket, status, count, written) ==
    [store |-> tbl, bucket |-> bucket, status |-> status, questionsCount |-> count,
     written |-> written]

\* first process-exam-paper handler: Gemini, first-page image, upsert.
\* gem = [ok, items]: the Gemini call and the items parsed from its answer
ProcessUpsertHandler(tbl, bucket, paper, pageImages, gem, failed) ==
    IF Len(pageImages) = 0 THEN Outcome(tbl, bucket, 400, 0, <<>>)
    ELSE IF ~gem.ok THEN Outcome(tbl, bucket, 500, 0, <<>>)
    ELSE LET questions == extractAndSplitQuestions(gem.items)
             saved == saveQuestionImagesFirstPage(questions, pageImages, bucket, paper, failed)
         IN IF Len(questions) = 0 THEN Outcome(tbl, bucket, 400, 0, <<>>)
            ELSE Outcome(upsertAll(tbl, paper, saved.results), saved.bucket, 200,
                         Len(saved.results), RowsOf(paper, saved.results))

\* a handler that falls back to the unfiltered items when no item is valid
ProcessInsertHandlerWithFallback(tbl, bucket, paper, pageImages, gem, failed) ==
    IF Len(pageImages) = 0 THEN Outcome(tbl, bucket, 400, 0, <<>>)
    ELSE IF ~gem.ok THEN Outcome(tbl, bucket, 500, 0, <<>>)
    ELSE LET valid == extractAndSplitQuestions(gem.items)
             questions == IF Len(valid) = 0 THEN gem.items ELSE valid
             saved == saveQuestionImages(questions, pageImages, bucket, paper, failed)
             ins == insertAll([table |-> tbl, savedCount |-> 0, errorCount |-> 0],
                              paper, saved.results)
         IN Outcome(ins.table, saved.bucket, 200, Len(saved.results),
                    RowsOf(paper, saved.results))

\* current process-exam-paper handler: Gemini, stitched image, insert
ProcessInsertHandler(tbl, bucket, paper, pageImages, gem, failed) ==
    IF Len(pageImages) = 0 THEN Outcome(tbl, bucket, 400, 0, <<>>)
    ELSE IF ~gem.ok THEN Outcome(tbl, bucket, 500, 0, <<>>)
    ELSE LET questions == extractAndSplitQuestions(gem.items)
             saved == saveQuestionImages(questions, pageImages, bucket, paper, failed)
             ins == insertAll([table |-> tbl, savedCount |-> 0, errorCount |-> 0],
                              paper, saved.results)
         IN IF Len(questions) = 0 THEN Outcome(tbl, bucket, 400, 0, <<>>)
            ELSE Outcome(ins.table, saved.bucket, 200, Len(saved.results),
                         RowsOf(paper, saved.results))

\* Gemini 2.0 Flash handler: zero valid questions throw, a failed upload is
\* stored with imageUrl ''
ProcessGeminiHandler(tbl, bucket, paper, pageImages, gem, failed) ==
    IF Len(pageImages) = 0 THEN Outcome(tbl, bucket, 400, 0, <<>>)
    ELSE IF ~gem.ok THEN Outcome(tbl, bucket, 500, 0, <<>>)
    ELSE LET questions == analyzeExamPaperWithGemini(gem.items)
             processed == processQuestionImages(questions, pageImages, bucket, paper, failed)
         IN IF Len(questions) = 0 THEN Outcome(tbl, bucket, 500, 0, <<>>)
            ELSE Outcome(upsertAll(tbl, paper, processed.results), processed.bucket, 200,
                         Len(processed.results), RowsOf(paper, processed.results))

-----------------------------------------------------------------------------
(* Regex + Gemini ingestion.                                               *)

DigitSeq == <<"0", "1", "2", "3", "4", "5", "6", "7", "8", "9">>

RECURSIVE toString(_)
\* Number.prototype.toString of a natural number
toString(n) ==
    IF n < 10 THEN <<DigitSeq[n + 1]>>
    ELSE toString(n \div 10) \o <<DigitSeq[(n % 10) + 1]>>

\* Step 1: the pages whose OCR call succeeded, in request order.
\* ocr[i] = [ok, text] is the outcome of the OCR call for pageImages[i]
RECURSIVE ocrPages(_, _, _)
ocrPages(pageImages, ocr, i) ==
    IF i > Len(pageImages) THEN <<>>
    ELSE (IF ocr[i].ok
          THEN <<[pageNumber |-> pageImages[i].pageNumber, ocrText |-> ocr[i].text]>>
          ELSE <<>>) \o ocrPages(pageImages, ocr, i + 1)

\* Step 4, first loop: the regex questions, the first of each number
RECURSIVE mergeRegex(_, _)
mergeRegex(acc, regexQuestions) ==
    IF Len(regexQuestions) = 0 THEN acc
    ELSE LET q == Head(regexQuestions)
         IN mergeRegex(IF q.questionNumber \in acc.seen THEN acc
                       ELSE [merged |-> Append(acc.merged, q),
                             seen |-> acc.seen \cup {q.questionNumber}],
                       Tail(regexQuestions))

\* Step 4, second loop: the Gemini questions whose number is not seen yet;
\* i is the index of the loop (from 0)
RECURSIVE mergeGemini(_, _, _)
mergeGemini(acc, geminiQuestions, i) ==
    IF i >= Len(geminiQuestions) THEN acc
    ELSE LET q == geminiQuestions[i + 1]
             num == IF q.questionNumber # <<>> THEN q.questionNumber ELSE toString(i + 1)
         IN mergeGemini(IF num \in acc.seen THEN acc
                        ELSE [merged |-> Append(acc.merged,
                                                [questionNumber |-> num,
                                                 pageNumbers |-> <<>>,
                                                 ocrTexts |-> <<q.text>>]),
                              seen |-> acc.seen \cup {num}],
                        geminiQuestions, i + 1)

mergeQuestions(regexQuestions, geminiQuestions) ==
    mergeGemini(mergeRegex([merged |-> <<>>, seen |-> {}], regexQuestions),
                geminiQuestions, 0).merged

\* the row written for a merged question (no image_url in the payload)
MergedRow(paper, q) ==
    Row(paper, q.questionNumber, q.pageNumbers, join(q.ocrTexts, <<"\n", "\n">>), <<>>)

\* Step 5: for (const question of merged) await upsert(...)
RECURSIVE saveMerged(_, _, _)
saveMerged(tbl, paper, merged) ==
    IF Len(merged) = 0 THEN tbl
    ELSE saveMerged(upsertWithoutImageUrl(tbl, MergedRow(paper, Head(merged))),
                    paper, Tail(merged))

\* regex + Gemini handler. geminiQuestions is <<>> when there is no API key or
\* the call or the parse fails
ProcessMergeHandler(tbl, bucket, paper, pageImages, ocr, geminiQuestions) ==
    IF Len(pageImages) = 0 THEN Outcome(tbl, bucket, 400, 0, <<>>)
    ELSE LET pagesWithOCR == ocrPages(pageImages, ocr, 1)
             regexQuestions == detectAndGroupQuestions(pagesWithOCR)
             merged == mergeQuestions(regexQuestions, geminiQuestions)
         IN Outcome(saveMerged(tbl, paper, merged), bucket, 200, Len(merged),
                    [i \in 1..Len(merged) |-> MergedRow(paper, merged[i])])

-----------------------------------------------------------------------------
(* Inputs of the model.                                                    *)

\* largest number of pages of a document
MaxPages == 3

\* largest number of ingestion runs in one behaviour
MaxRuns == 2

Papers == {"p1", "p2"}

\* page texts; late has its marker on line 11, outside the window of the
\* regex detector
Txt ==
    [calculate |-> <<"1", " ", "C", "a", "l", "c", "u", "l", "a", "t", "e", " ", "x", ".", "\n", ".", ".", ".">>,
     continuation |-> <<"c", "o", "n", "t", "i", "n", "u", "a", "t", "i", "o", "n">>,
     solve |-> <<"2", " ", "S", "o", "l", "v", "e", " ", "f", "o", "r", " ", "y", ".">>,
     dot1 |-> <<"1", ".", " ", "a">>,
     paren2 |-> <<" ", "2", ")", " ", "b">>,
     q1 |-> <<"Q", "1", " ", "c">>,
     q2A |-> <<"i", "n", "t", "r", "o", "\n", "Q", ".", " ", "2", "A", ":", " ", "d">>,
     plain |-> <<"b">>,
     late |-> <<"\n", "\n", "\n", "\n", "\n", "\n", "\n", "\n", "\n", "\n", "3", ".">>]

Ok(text) == [ok |-> TRUE, text |-> text]

OcrFailed == [ok |-> FALSE, text |-> <<>>]

\* the OCR outcomes of the documents that the regex + Gemini handler is run on
OcrCatalogue ==
    { <<Ok(Txt.calculate), Ok(Txt.continuation), Ok(Txt.solve)>>,
      <<Ok(Txt.dot1), Ok(Txt.plain), Ok(Txt.paren2)>>,
      <<Ok(Txt.dot1), OcrFailed, Ok(Txt.q1)>>,
      <<Ok(Txt.plain), Ok(Txt.q2A)>> }

\* the answers of Gemini to the regex + Gemini handler
GeminiTextCatalogue ==
    { <<>>,
      <<[questionNumber |-> <<"1">>, text |-> <<"g">>],
        [questionNumber |-> <<>>, text |-> <<"h">>]>>,
      <<[questionNumber |-> <<"2", "A">>, text |-> <<"k">>],
        [questionNumber |-> <<"3">>, text |-> <<"m">>]>> }

\* an item of the answer of Gemini; pagesAreNumbers is FALSE for pages that are
\* strings ("1"), or absent (0)
Question(qn, startPage, endPage, text) ==
    [questionNumber |-> qn, startPage |-> startPage, endPage |-> endPage, fullText |-> text,
     pagesAreNumbers |-> TRUE]

\* the answers of Gemini to the generative handlers
GeminiCatalogue ==
    { [ok |-> FALSE, items |-> <<>>],
      [ok |-> TRUE, items |-> <<Question(<<"1">>, 1, 2, <<"a">>), Question(<<"2">>, 3, 3, <<"b">>)>>],
      [ok |-> TRUE, items |-> <<Question(<<"1">>, 1, 1, <<"c">>)>>],
      [ok |-> TRUE, items |-> <<Question(<<"1", "A">>, 1, 1, <<"a">>),
                                Question(<<"1", "A">>, 2, 2, <<"b">>)>>],
      [ok |-> TRUE, items |-> <<Question(<<>>, 1, 1, <<"a">>)>>],
      [ok |-> TRUE, items |-> <<Question(<<"1", ".", "a">>, 1, 1, <<"a">>),
                                Question(<<"1", "-", "a">>, 3, 3, <<"b">>)>>],
      [ok |-> TRUE, items |-> <<Question(<<"3">>, 2, MaxPages + 2, <<"c">>),
                                Question(<<"4">>, 3, 2, <<"d">>)>>],
      [ok |-> TRUE, items |-> <<[Question(<<"5">>, 1, 1, <<"e">>) EXCEPT !.pagesAreNumbers = FALSE],
                                Question(<<"6">>, 1, 2, <<>>),
                                [Question(<<"7">>, 0, 0, <<"f">>) EXCEPT !.pagesAreNumbers = FALSE]>>] }

\* the uploads that fail in a run: none, or the upload of the first question
UploadFailures == {{}, {1}}

\* the page images of a request for a document of n pages
PageImages(n) == [i \in 1..n |-> PageImage(i)]

\* the pageImages of the requests to the generative handlers: the pages in
\* order, the last page first, and page 2 with bytes that are no image
PageImagesCatalogue ==
    { PageImages(MaxPages),
      [i \in 1..MaxPages |-> PageImage(MaxPages + 1 - i)],
      [i \in 1..MaxPages |-> IF i = 2 THEN [pageNumber |-> i, base64Image |-> -i]
                                        ELSE PageImage(i)] }

\* the texts of the pages given to the detectors
PageTexts == {Txt.calculate, Txt.dot1, Txt.paren2, Txt.q2A, Txt.plain, Txt.late, <<>>}

\* every document of 1..MaxPages pages over PageTexts, as pagesWithOCR
DetectorInputs ==
    UNION { { [i \in 1..n |-> [pageNumber |-> i, ocrText |-> f[i]]] : f \in [1..n -> PageTexts] }
            : n \in 1..MaxPages }

-----------------------------------------------------------------------------
(* The answer of Gemini as text: JSON.parse and the salvage of a truncated *)
(* answer. An object of the answer is written {a}, {b} or {c}: the letter  *)
(* stands for its members. A code fence is one element of the text.        *)

\* the letters that stand for the members of an object
Bodies == {"a", "b", "c"}

\* a code fence (three backquotes)
Fence == "fence"

\* the first index >= p of the text that holds c; 0 when there is none
RECURSIVE indexOf(_, _, _)
indexOf(t, c, p) ==
    IF p > Len(t) THEN 0 ELSE IF t[p] = c THEN p ELSE indexOf(t, c, p + 1)

\* the last index of the text that holds c; 0 when there is none
RECURSIVE lastIndexOf(_, _, _)
lastIndexOf(t, c, p) ==
    IF p < 1 THEN 0 ELSE IF t[p] = c THEN p ELSE lastIndexOf(t, c, p - 1)

\* an object {x} starts at index j
IsObjectAt(t, j) == At(t, j) = "{" /\ At(t, j + 1) \in Bodies /\ At(t, j + 2) = "}"

JsonError == [kind |-> "error", items |-> <<>>]

JsonArray(items) == [kind |-> "array", items |-> items]

\* the elements of an array from index i on; st tells what may come next
RECURSIVE ParseElements(_, _, _, _)
ParseElements(t, i, acc, st) ==
    LET j == SkipWs(t, i)
    IN IF At(t, j) = "]" /\ st # "afterComma"
       THEN (IF SkipWs(t, j + 1) > Len(t) THEN JsonArray(acc) ELSE JsonError)
       ELSE IF st = "afterObject"
       THEN (IF At(t, j) = "," THEN ParseElements(t, j + 1, acc, "afterComma")
             ELSE JsonError)
       ELSE IF IsObjectAt(t, j)
       THEN ParseElements(t, j + 3, Append(acc, t[j + 1]), "afterObject")
       ELSE JsonError

\* JSON.parse of a text: an array of objects, one object, or a SyntaxError
JSONparse(t) ==
    LET j == SkipWs(t, 1)
    IN IF At(t, j) = "[" THEN ParseElements(t, j + 1, <<>>, "first")
       ELSE IF IsObjectAt(t, j) /\ SkipWs(t, j + 3) > Len(t)
       THEN [kind |-> "object", items |-> <<t[j + 1]>>]
       ELSE JsonError

\* jsonText.match(/<fence>(?:json)?\s*\n?([\s\S]*?)\n?<fence>/): the trimmed text
\* between the first two fences; the text itself when there is no such match
StripFence(t) ==
    LET p == indexOf(t, Fence, 1)
        afterJson == IF SubSeq(t, p + 1, p + 4) = <<"j", "s", "o", "n">> THEN p + 5 ELSE p + 1
        start == SkipWs(t, afterJson)
        q == indexOf(t, Fence, start)
    IN IF p = 0 \/ q = 0 THEN t ELSE trim(SubSeq(t, start, q - 1))

\* jsonText.match(/\[[\s\S]*\]/) when the text does not start with '['
FindArray(t) ==
    LET p == indexOf(t, "[", 1)
        q == lastIndexOf(t, "]", Len(t))
    IN IF At(t, 1) = "[" \/ p = 0 \/ q < p THEN t ELSE SubSeq(t, p, q)

\* jsonText.match(/\{[^}]*\}(?=\s*,|\s*\])/g) from index p on
RECURSIVE SalvageMatches(_, _)
SalvageMatches(t, p) ==
    LET s == indexOf(t, "{", p)
        e == IF s = 0 THEN 0 ELSE indexOf(t, "}", s + 1)
        follow == At(t, SkipWs(t, e + 1))
    IN IF s = 0 \/ e = 0 THEN <<>>
       ELSE IF follow = "," \/ follow = "]"
       THEN <<SubSeq(t, s, e)>> \o SalvageMatches(t, e + 1)
       ELSE SalvageMatches(t, e + 1)

\* the result of the parse of an answer: the objects parsed, or the throw
ParseResult(ok, questions, salvaged) == [ok |-> ok, questions |-> questions, salvaged |-> salvaged]

\* the salvage of extractAndSplitQuestions: the complete objects that a ','
\* or a ']' follows are parsed as an array; a throw when there is none or
\* when the array does not parse
Salvage(jsonText) ==
    LET lastCompleteMatch == SalvageMatches(jsonText, 1)
        salvaged == JSONparse(<<"[">> \o join(lastCompleteMatch, <<",">>) \o <<"]">>)
    IN IF Len(lastCompleteMatch) = 0 \/ salvaged.kind # "array" THEN ParseResult(FALSE, <<>>, TRUE)
       ELSE ParseResult(TRUE, salvaged.items, TRUE)

\* extractAndSplitQuestions from rawText to the parsed questions
ParseOrSalvage(jsonText, questions) ==
    IF questions.kind = "error" THEN Salvage(jsonText)
    ELSE IF questions.kind # "array" THEN ParseResult(FALSE, <<>>, FALSE)
    ELSE ParseResult(TRUE, questions.items, FALSE)

parseQuestions(rawText) ==
    IF Len(rawText) = 0 THEN ParseResult(FALSE, <<>>, FALSE)
    ELSE ParseOrSalvage(trim(FindArray(StripFence(trim(rawText)))),
                        JSONparse(trim(FindArray(StripFence(trim(rawText))))))

\* .replace(/\n/g, ' ').replace(/\s+/g, ' ') of the aggressive-clean variant
RECURSIVE collapseWs(_)
collapseWs(t) ==
    IF Len(t) = 0 THEN <<>>
    ELSE IF IsSpace(t[1])
    THEN (IF Len(t) > 1 /\ IsSpace(t[2]) THEN collapseWs(Tail(t))
          ELSE <<" ">> \o collapseWs(Tail(t)))
    ELSE <<t[1]>> \o collapseWs(Tail(t))

\* the second clean: control characters and backslashes are removed
cleanedAgain(t) == SelectSeq(t, LAMBDA c : c \notin {"\n", "\t", "\\"})

\* the parse of the aggressive-clean variant: two attempts, no salvage
ParseTwice(first, second) ==
    IF first.kind = "error" /\ second.kind = "error" THEN ParseResult(FALSE, <<>>, FALSE)
    ELSE IF first.kind = "array" THEN ParseResult(TRUE, first.items, FALSE)
    ELSE IF first.kind = "error" /\ second.kind = "array" THEN ParseResult(TRUE, second.items, FALSE)
    ELSE ParseResult(FALSE, <<>>, FALSE)

parseQuestionsAggressive(rawText) ==
    IF Len(rawText) = 0 THEN ParseResult(FALSE, <<>>, FALSE)
    ELSE ParseTwice(JSONparse(trim(collapseWs(FindArray(StripFence(trim(rawText)))))),
                    JSONparse(cleanedAgain(trim(collapseWs(FindArray(StripFence(trim(rawText))))))))


-----------------------------------------------------------------------------
(* The chat client and the exam-assistant handler.                         *)

\* an image of a request to the AI provider: what it shows and of what
Img(kind, ref) == [kind |-> kind, ref |-> ref]

\* convertPdfToBase64Images of the exam paper: one image per page, in order
ExamPageImages(n) == [i \in 1..n |-> Img("exam-page", toString(i))]

\* convertPdfToBase64Images of the marking scheme
SchemePageImages(n) == [i \in 1..n |-> Img("scheme-page", toString(i))]

\* the base64 image read from the public URL of a question image
QuestionImage(url) == Img("question", url)

\* a lookup that ignores the question number
lookupAnyQuestion(tbl, paper, questionNumber) ==
    LET rows == SelectSeq(tbl, LAMBDA r : r.exam_paper_id = paper)
    IN IF Len(rows) >= 1 THEN <<rows[1]>> ELSE <<>>

\* from('exam_questions').select(...).eq('exam_paper_id', id)
\*    .eq('question_number', questionNumber).maybeSingle():
\* <<row>> when exactly one row matches, <<>> (null data) otherwise
lookupQuestion(tbl, paper, questionNumber) ==
    LET rows == SelectSeq(tbl, LAMBDA r : r.exam_paper_id = paper
                                          /\ r.question_number = questionNumber)
    IN IF Len(rows) = 1 THEN rows ELSE <<>>

\* the id of the marking_schemes row of the paper; "" when the paper has none
SchemeIdOf(examPaper) == IF examPaper.marking_schemes THEN "ms1" ELSE ""

\* handleSendMessage from the lookup to the fetch of exam-assistant, given the
\* label extracted (questionNumber) and the data of the lookup (questionData).
\* fetchOk: the fetch of the question image does not throw.
\* Result: what the client found, whether it alerts instead of sending, and
\* the request body. An absent array of the body is <<>>;
\* markingSchemeImagesGiven tells whether the body has markingSchemeImages.
RequestOf(userMessage, examPaper, examPaperImages, markingSchemeImages, questionNumber, questionData, fetchOk) ==
    LET found == questionData # <<>>
        hasUrl == found /\ questionData[1].image_url # <<>>
        fetched == IF ~hasUrl THEN "none" ELSE IF fetchOk THEN "ok" ELSE "failed"
        optimizedMode == IF questionNumber = <<>> THEN "undefined"
                         ELSE IF found /\ fetched # "failed" THEN "true"
                         ELSE "false"
        fallback == optimizedMode # "true"
    IN [questionNumber |-> questionNumber,
        questionData |-> questionData,
        found |-> found,
        fetched |-> fetched,
        alert |-> fallback /\ Len(examPaperImages) = 0,
        body |-> [question |-> userMessage,
                  examPaperId |-> examPaper.id,
                  optimizedMode |-> optimizedMode,
                  questionNumber |-> IF found THEN questionNumber ELSE <<>>,
                  questionImageUrl |-> IF found THEN questionData[1].image_url ELSE <<>>,
                  examPaperImages |-> IF fallback THEN examPaperImages
                                      ELSE IF fetched = "ok"
                                      THEN <<QuestionImage(questionData[1].image_url)>>
                                      ELSE <<>>,
                  markingSchemeImages |-> IF fallback THEN markingSchemeImages ELSE <<>>,
                  markingSchemeImagesGiven |-> fallback,
                  markingSchemeId |-> SchemeIdOf(examPaper)]]

\* handleSendMessage from the trimmed input to the fetch of exam-assistant:
\* the label is extracted and, when there is one, looked up in the store
BuildRequest(userMessage, examPaper, tbl, examPaperImages, markingSchemeImages, fetchOk) ==
    RequestOf(userMessage, examPaper, examPaperImages, markingSchemeImages,
              extractQuestionNumber(userMessage),
              IF extractQuestionNumber(userMessage) # <<>>
              THEN lookupQuestion(tbl, examPaper.id, extractQuestionNumber(userMessage))
              ELSE <<>>,
              fetchOk)

\* parseQuestionNumber of question-retrieval.ts: "question <num>", "q[.]?<num>"
\* or a bare leading number, case-insensitive, first match wins, the letter
\* suffix kept, lower-cased; <<>> is null
parseQuestionNumber(question) ==
    LET m1 == ExecQuestionWord(question)
        m2 == ExecQLetter(question)
        m3 == ExecLeadingNumber(question)
    IN IF m1 # <<>> THEN toLowerCase(m1)
       ELSE IF m2 # <<>> THEN toLowerCase(m2)
       ELSE IF m3 # <<>> THEN toLowerCase(m3)
       ELSE <<>>

\* getQuestionImages of question-retrieval.ts: <<>> (null) on a store miss;
\* on a hit the image of the record, when it has one, and the image of the
\* same label of the marking scheme, when there is one
getQuestionImages(tbl, schemeQuestions, examPaperId, questionNumber, markingSchemeId) ==
    LET rows == SelectSeq(tbl, LAMBDA r : r.exam_paper_id = examPaperId
                                          /\ r.question_number = questionNumber)
    IN IF Len(rows) = 0 THEN <<>>
       ELSE <<[examImages |-> IF rows[1].image_url # <<>>
                              THEN <<QuestionImage(rows[1].image_url)>>
                              ELSE <<>>,
               markingSchemeImages |-> IF markingSchemeId # "" /\ questionNumber \in schemeQuestions
                                       THEN <<Img("scheme-question", questionNumber)>>
                                       ELSE <<>>]>>

\* data.answer of a successful response
Answer == "answer"

\* error.message of the error that a provider throws when its API call fails
ProviderErrorMessage == "API error"

\* the response of exam-assistant and the call it made to the AI provider. The
\* body has the answer when the status is 200; the body of the catch (500) has
\* details: error.message, the message of the provider when the provider threw
Reply(status, optimized, questionNumber, call) ==
    [status |-> status, optimized |-> optimized, questionNumber |-> questionNumber,
     call |-> call,
     answer |-> IF status = 200 THEN <<Answer>> ELSE <<>>,
     details |-> IF status # 500 THEN <<>>
                 ELSE IF call # <<>> THEN <<ProviderErrorMessage>>
                 ELSE <<"TypeError">>]

\* aiProvider.generateResponse(messages, examImages, markingSchemeImages)
ProviderCall(examImages, markingSchemeImages, ok) ==
    [examImages |-> examImages, markingSchemeImages |-> markingSchemeImages, ok |-> ok]

\* the retrieval of the question images on the server: <<>> when the question
\* names no label or the body has no paper id
RetrieveImages(body, tbl, schemeQuestions, questionNumber) ==
    IF questionNumber # <<>> /\ body.examPaperId # ""
    THEN getQuestionImages(tbl, schemeQuestions, body.examPaperId, questionNumber,
                           body.markingSchemeId)
    ELSE <<>>

\* a handler that answers in place of a provider that failed
RespondFabricating(body, questionNumber, questionData, providerOk) ==
    LET preFetched == body.optimizedMode = "true" /\ Len(body.examPaperImages) > 0
        retrieved == questionData # <<>> /\ Len(questionData[1].examImages) > 0
        finalExamImages == IF retrieved THEN questionData[1].examImages
                           ELSE body.examPaperImages
        finalMarkingSchemeImages == IF retrieved THEN questionData[1].markingSchemeImages
                                    ELSE body.markingSchemeImages
        call == ProviderCall(finalExamImages, finalMarkingSchemeImages, providerOk)
    IN IF body.question = <<>> THEN Reply(400, FALSE, <<>>, <<>>)
       ELSE IF ~(preFetched \/ retrieved) /\ Len(body.examPaperImages) = 0
       THEN Reply(400, FALSE, <<>>, <<>>)
       ELSE Reply(200, preFetched \/ retrieved, <<>>, <<call>>)

\* a handler without the guard of the fallback: the provider is called with
\* whatever images the request has
RespondNoGuard(body, questionNumber, questionData, providerOk) ==
    LET preFetched == body.optimizedMode = "true" /\ Len(body.examPaperImages) > 0
        retrieved == questionData # <<>> /\ Len(questionData[1].examImages) > 0
        finalExamImages == IF retrieved THEN questionData[1].examImages
                           ELSE body.examPaperImages
        finalMarkingSchemeImages == IF retrieved THEN questionData[1].markingSchemeImages
                                    ELSE body.markingSchemeImages
        call == ProviderCall(finalExamImages, finalMarkingSchemeImages, providerOk)
    IN Reply(IF providerOk THEN 200 ELSE 500, preFetched \/ retrieved, <<>>, <<call>>)

\* the exam-assistant handler from the choice of the images to the response,
\* given the label parsed and the data retrieved (<<>> when the images came
\* with the request, which skips the retrieval).
\* providerOk: generateResponse does not throw
Respond(body, questionNumber, questionData, providerOk) ==
    LET preFetched == body.optimizedMode = "true" /\ Len(body.examPaperImages) > 0
        retrieved == questionData # <<>> /\ Len(questionData[1].examImages) > 0
        usedOptimizedMode == preFetched \/ retrieved
        finalExamImages == IF retrieved THEN questionData[1].examImages
                           ELSE body.examPaperImages
        finalMarkingSchemeImages == IF retrieved THEN questionData[1].markingSchemeImages
                                    ELSE body.markingSchemeImages
        detectedQuestionNumber == IF preFetched THEN body.questionNumber
                                  ELSE IF retrieved THEN questionNumber
                                  ELSE <<>>
        call == ProviderCall(finalExamImages, finalMarkingSchemeImages, providerOk)
    IN IF body.question = <<>> THEN Reply(400, FALSE, <<>>, <<>>)
       ELSE IF ~usedOptimizedMode /\ Len(body.examPaperImages) = 0
       THEN Reply(400, FALSE, <<>>, <<>>)
       ELSE IF ~providerOk THEN Reply(500, usedOptimizedMode, detectedQuestionNumber, <<call>>)
       ELSE Reply(200, usedOptimizedMode, detectedQuestionNumber, <<call>>)

\* the exam-assistant handler for a POST with the given body
ExamAssistantHandler(body, tbl, schemeQuestions, providerOk) ==
    Respond(body, parseQuestionNumber(body.question),
            IF body.optimizedMode = "true" /\ Len(body.examPaperImages) > 0 THEN <<>>
            ELSE RetrieveImages(body, tbl, schemeQuestions, parseQuestionNumber(body.question)),
            providerOk)

\* the earlier exam-assistant handler from the choice of the images to the
\* response; the prompt reads markingSchemeImages.length, which throws before
\* the provider is called when the body has no markingSchemeImages
EarlierRespond(body, questionNumber, questionData, providerOk) ==
    LET usedQuestionRetrieval == questionData # <<>> /\ Len(questionData[1].examImages) > 0
        finalExamImages == IF usedQuestionRetrieval THEN questionData[1].examImages
                           ELSE body.examPaperImages
        finalMarkingSchemeImages == IF usedQuestionRetrieval
                                    THEN questionData[1].markingSchemeImages
                                    ELSE body.markingSchemeImages
        detected == IF usedQuestionRetrieval THEN questionNumber ELSE <<>>
        call == ProviderCall(finalExamImages, finalMarkingSchemeImages, providerOk)
    IN IF body.question = <<>> THEN Reply(400, FALSE, <<>>, <<>>)
       ELSE IF ~usedQuestionRetrieval /\ Len(body.examPaperImages) = 0
       THEN Reply(400, FALSE, <<>>, <<>>)
       ELSE IF ~body.markingSchemeImagesGiven
       THEN Reply(500, usedQuestionRetrieval, detected, <<>>)
       ELSE IF ~providerOk THEN Reply(500, usedQuestionRetrieval, detected, <<call>>)
       ELSE Reply(200, usedQuestionRetrieval, detected, <<call>>)

\* the earlier exam-assistant handler: no optimizedMode, the question is always
\* resolved on the server
ExamAssistantEarlierHandler(body, tbl, schemeQuestions, providerOk) ==
    EarlierRespond(body, parseQuestionNumber(body.question),
                   RetrieveImages(body, tbl, schemeQuestions,
                                  parseQuestionNumber(body.question)),
                   providerOk)

\* the assistant message shown when the request fails
GenericError == "Sorry, I encountered an error. Please try again."

UserMessage(content) == [role |-> "user", content |-> content]

AssistantMessage(content) == [role |-> "assistant", content |-> content]

-----------------------------------------------------------------------------
(* The AI providers of exam-assistant (ai-providers.ts): the content of    *)
(* the request that generateResponse builds. A text is the sequence of the *)
(* strings it is concatenated from.                                        *)

ExamHeader == "\\n\\nEXAM PAPER:"

SchemeHeader == "\\n\\nMARKING SCHEME:"

\* the messages whose content is a string
StringMessages(messages) == SelectSeq(messages, LAMBDA m : m.isString)

\* GeminiProvider.generateResponse: parts
GeminiParts(messages, examImages, markingSchemeImages) ==
    [k \in 1..Len(StringMessages(messages)) |->
        [text |-> IF StringMessages(messages)[k].role = "system"
                  THEN <<"System: ", StringMessages(messages)[k].content>>
                  ELSE <<StringMessages(messages)[k].content>>]]
    \o <<[text |-> <<ExamHeader>>]>>
    \o [k \in 1..Len(examImages) |->
          [inlineData |-> [mimeType |-> "image/jpeg", data |-> examImages[k]]]]
    \o (IF Len(markingSchemeImages) > 0
        THEN <<[text |-> <<SchemeHeader>>]>>
             \o [k \in 1..Len(markingSchemeImages) |->
                   [inlineData |-> [mimeType |-> "image/jpeg", data |-> markingSchemeImages[k]]]]
        ELSE <<>>)

\* OpenAIProvider.generateResponse: messageContent
OpenAIContent(messages, examImages, markingSchemeImages) ==
    [k \in 1..Len(StringMessages(messages)) |->
        [type |-> "text", text |-> <<StringMessages(messages)[k].content>>]]
    \o <<[type |-> "text", text |-> <<ExamHeader>>]>>
    \o [k \in 1..Len(examImages) |->
          [type |-> "image_url",
           image_url |-> [url |-> <<"data:image/jpeg;base64,", examImages[k]>>]]]
    \o (IF Len(markingSchemeImages) > 0
        THEN <<[type |-> "text", text |-> <<SchemeHeader>>]>>
             \o [k \in 1..Len(markingSchemeImages) |->
                   [type |-> "image_url",
                    image_url |-> [url |-> <<"data:image/jpeg;base64,", markingSchemeImages[k]>>]]]
        ELSE <<>>)

\* ClaudeProvider.generateResponse: messageContent
ClaudeContent(messages, examImages, markingSchemeImages) ==
    [k \in 1..Len(StringMessages(messages)) |->
        [type |-> "text", text |-> <<StringMessages(messages)[k].content>>]]
    \o <<[type |-> "text", text |-> <<ExamHeader>>]>>
    \o [k \in 1..Len(examImages) |->
          [type |-> "image",
           source |-> [type |-> "base64", media_type |-> "image/jpeg", data |-> examImages[k]]]]
    \o (IF Len(markingSchemeImages) > 0
        THEN <<[type |-> "text", text |-> <<SchemeHeader>>]>>
             \o [k \in 1..Len(markingSchemeImages) |->
                   [type |-> "image",
                    source |-> [type |-> "base64", media_type |-> "image/jpeg",
                                data |-> markingSchemeImages[k]]]]
        ELSE <<>>)

-----------------------------------------------------------------------------
(* The usage tracking of the subscription system. An element of            *)
(* papers_accessed is a paper id or NULL; an SQL boolean is "true",        *)
(* "false" or "null".                                                      *)

AccessPapers == {"p1", "p2", "p3"}

\* free_papers_limit of subscription_config
free_papers_limit == 2

\* features.max_papers of the free plan
max_papers == 2

\* x = ANY(arr)
EqAny(x, arr) ==
    IF \E k \in 1..Len(arr) : arr[k] = x THEN "true"
    ELSE IF \E k \in 1..Len(arr) : arr[k] = "NULL" THEN "null"
    ELSE "false"

\* track_paper_access: INSERT ... ON CONFLICT (user_id, month_year) DO UPDATE
track_paper_access(row, paper_id) ==
    IF row = <<>> THEN <<[questions_asked |-> 0, papers_accessed |-> <<paper_id>>]>>
    ELSE <<[row[1] EXCEPT !.papers_accessed =
                Append(IF EqAny(paper_id, row[1].papers_accessed) = "true"
                       THEN row[1].papers_accessed
                       ELSE Append(row[1].papers_accessed, paper_id),
                       "NULL")]>>

\* track_question_asked
track_question_asked(row) ==
    IF row = <<>> THEN <<[questions_asked |-> 1, papers_accessed |-> <<>>]>>
    ELSE <<[row[1] EXCEPT !.questions_asked = row[1].questions_asked + 1]>>

\* can_access_paper, free plan: array_length(papers_accessed, 1) < free_limit
\* OR paper_id = ANY(papers_accessed); array_length of an empty array is NULL
can_access_paper(row, paper_id) ==
    IF row = <<>> THEN "true"
    ELSE LET less == IF Len(row[1].papers_accessed) = 0 THEN "null"
                     ELSE IF Len(row[1].papers_accessed) < free_papers_limit THEN "true"
                     ELSE "false"
             any == EqAny(paper_id, row[1].papers_accessed)
         IN IF less = "true" \/ any = "true" THEN "true"
            ELSE IF less = "null" \/ any = "null" THEN "null"
            ELSE "false"

\* canAccessPaper of the client, free plan, on the usage it fetched
canAccessPaper(row, paperId) ==
    LET accessedPapers == IF row = <<>> THEN <<>> ELSE row[1].papers_accessed
    IN IF \E k \in 1..Len(accessedPapers) : accessedPapers[k] = paperId THEN TRUE
       ELSE Len(accessedPapers) < max_papers

\* number of pages of the exam paper that is open in the chat
ChatPages == 5

\* number of pages of its marking scheme
SchemePages == 2

\* largest number of messages sent in one behaviour
MaxSends == 2

\* largest number of questions given to extractFullTextForQuestions
MaxQuestions == 8

\* the size of a batch of extractFullTextForQuestions
BatchSize == 3

\* largest number of messages, and of images of a kind, given to a provider
MaxMessages == 2

MaxImages == 2

\* largest number of tracking calls in one behaviour
MaxCalls == 4

\* texts that the user types
Typed ==
    [question1 |-> <<"Q", "u", "e", "s", "t", "i", "o", "n", " ", "1">>,
     q1 |-> <<"Q", "1">>,
     qDot1 |-> <<"q", ".", "1">>,
     bare1 |-> <<"1">>,
     what7 |-> <<"W", "h", "a", "t", " ", "i", "s", " ", "q", "u", "e", "s", "t", "i", "o", "n",
                 " ", "7", " ", "a", "b", "o", "u", "t", "?">>,
     noNumber |-> <<"e", "x", "p", "l", "a", "i", "n", " ", "t", "h", "i", "s">>,
     blank |-> <<" ", " ">>]

\* the ways of naming a question, and the labels named
QueryPrefixes ==
    { <<"Q", "u", "e", "s", "t", "i", "o", "n", " ">>,
      <<"q", "u", "e", "s", "t", "i", "o", "n">>,
      <<"Q">>, <<"q", ".">>, <<"Q", ".", " ">>, <<>> }

QueryLabels == {<<"1">>, <<"2">>, <<"7">>, <<"1", "a">>, <<"1", "A">>, <<"1", "2">>}

\* the queries given to the extractors
Queries == {p \o l : p \in QueryPrefixes, l \in QueryLabels} \cup {Typed.what7, Typed.noNumber}

\* largest number of pieces of an answer of Gemini after its first piece
MaxPieces == 4

\* the pieces that the answers are made of: brackets, commas, blanks, two
\* complete objects and the start of an object that the answer cuts off
Pieces ==
    { <<"[">>, <<"]">>, <<",">>, <<" ">>, <<"{", "a", "}">>, <<"{", "b", "}">>, <<"{", "c">> }

\* the texts of n pieces
RECURSIVE PieceTexts(_)
PieceTexts(n) ==
    IF n = 0 THEN {<<>>} ELSE {t \o p : t \in PieceTexts(n - 1), p \in Pieces}

\* the answers given to the parsers: an opening bracket and up to MaxPieces
\* pieces, an answer in a code fence, an answer after some prose, one object,
\* no text
RawTexts ==
    { <<"[">> \o t : t \in UNION {PieceTexts(n) : n \in 0..MaxPieces} }
        \cup { <<Fence, "j", "s", "o", "n", "\n", "[", "{", "a", "}", "]", "\n", Fence>>,
               <<"x", " ", "[", "{", "a", "}", ",", "\n", "{", "b", "}", "]", " ", "x">>,
               <<"{", "a", "}">>,
               <<>> }

\* what the user types
Inputs == {Typed.question1, Typed.q1, Typed.qDot1, Typed.bare1, Typed.what7, Typed.noNumber, Typed.blank}

\* the paper that is open in the chat
ChatPaper == "p1"

\* the OCR outcomes of the chat paper for the regex + Gemini handler
ChatOcr ==
    [i \in 1..ChatPages |->
        IF i = 1 THEN Ok(Txt.dot1) ELSE IF i = 3 THEN Ok(Txt.paren2) ELSE Ok(Txt.plain)]

GeminiTwoQuestions ==
    [ok |-> TRUE, items |-> <<Question(<<"1">>, 1, 2, <<"a">>), Question(<<"2">>, 3, 3, <<"b">>)>>]

\* the states of the store that the chat is run against: the paper not
\* ingested, or ingested once by one of the handlers
ChatIngestions ==
    { [variant |-> "insert", out |-> Outcome(<<>>, {}, 0, 0, <<>>)],
      [variant |-> "insert",
       out |-> ProcessInsertHandler(<<>>, {}, ChatPaper, PageImages(ChatPages),
                                    GeminiTwoQuestions, {})],
      [variant |-> "gemini",
       out |-> ProcessGeminiHandler(<<>>, {}, ChatPaper, PageImages(ChatPages),
                                    GeminiTwoQuestions, {1})],
      [variant |-> "merge",
       out |-> ProcessMergeHandler(<<>>, {}, ChatPaper, PageImages(ChatPages),
                                   ChatOcr, <<>>)] }

-----------------------------------------------------------------------------
(* State.                                                                  *)

VARIABLES
    variant,      \* the process-exam-paper handler that is deployed
    store,        \* the rows of exam_questions
    bucket,       \* the objects of the exam-questions bucket
    runs,         \* number of ingestion runs so far
    lastRun,      \* request, external outcomes and response of the last run
    detIn,        \* pagesWithOCR given to the detectors
    detOut,       \* what the detectors returned for detIn
    query,        \* a query given to the question-number extractors
    parsed,       \* what the extractors and the lookup returned for query
    rawText,      \* the text of an answer of Gemini given to the parsers
    extracted,    \* what the parsers returned for rawText
    assistant,    \* the exam-assistant handler that is deployed
    examPaper,    \* the exam paper of the viewer
    schemeQuestions,      \* the labels that the marking scheme has an image for
    pdfLoaded,            \* loadPdfBlob has run
    examPaperImages,      \* state of the viewer: the page images of the paper
    markingSchemeImages,  \* state of the viewer: the page images of the scheme
    messages,     \* state of the viewer: the conversation
    sending,      \* state of the viewer: a message is being sent
    sends,        \* number of messages submitted so far
    lastSend,     \* what handleSendMessage found for the last message
    request,      \* <<body>> of the last POST to exam-assistant, or <<>>
    response,     \* <<reply>> of exam-assistant to the request, or <<>>
    conversation, \* the rows of conversation_messages of the viewer's conversation
    todo,    \* the questions given to extractFullTextForQuestions
    batchStart,    \* the loop index i of extractFullTextForQuestions
    inFlight,    \* indexes of the questions whose callback has not settled
    settled,    \* indexes of the questions of the batch whose callback has settled
    results,    \* the results array of extractFullTextForQuestions
    batchPc,   \* where extractFullTextForQuestions is: idle, loop, await or done
    provIn,    \* messages, examImages and markingSchemeImages given to the providers
    provOut,   \* the request content that each provider built for provIn
    usageRow,    \* <<row>> of user_usage_tracking of the user for the month, or <<>>
    tracked,    \* the papers that track_paper_access was called with
    calls    \* the number of tracking calls made

vars == <<variant, store, bucket, runs, lastRun, detIn, detOut, query, parsed, rawText,
          extracted, assistant,
          examPaper,
          schemeQuestions, pdfLoaded, examPaperImages, markingSchemeImages, messages,
          sending, sends, lastSend, request, response, conversation, todo, batchStart, inFlight, settled, results, batchPc, provIn, provOut, usageRow, tracked, calls>>

ingestVars == <<variant, store, bucket, runs, lastRun>>

detectVars == <<detIn, detOut>>

queryVars == <<query, parsed>>

parseVars == <<rawText, extracted>>

accessVars == <<usageRow, tracked, calls>>

providerVars == <<provIn, provOut>>

batchVars == <<todo, batchStart, inFlight, settled, results, batchPc>>

chatVars == <<assistant, examPaper, schemeQuestions, pdfLoaded, examPaperImages,
              markingSchemeImages, messages, sending, sends, lastSend, request, response,
              conversation>>

Variants == {"upsert", "insert", "gemini", "merge"}

Assistants == {"current", "earlier"}

NoRun ==
    [paper |-> "", pageImages |-> <<>>, ocr |-> <<>>, gemini |-> <<>>, status |-> 0,
     questionsCount |-> 0, written |-> <<>>, before |-> <<>>, failed |-> {},
     bucketBefore |-> {}]

NoDetection == [done |-> FALSE, regex |-> <<>>, main |-> <<>>]

NoParse == [done |-> FALSE, client |-> <<>>, clientData |-> <<>>, detector |-> <<>>]

NoSend ==
    [userMessage |-> <<>>, questionNumber |-> <<>>, questionData |-> <<>>,
     found |-> FALSE, fetched |-> "none", alert |-> FALSE]

InitIngest ==
    /\ variant \in Variants
    /\ store = <<>>
    /\ bucket = {}
    /\ runs = 0
    /\ lastRun = NoRun

InitDetectIdle == detIn = <<>> /\ detOut = NoDetection

\* the viewer before the PDFs are loaded, nothing sent
InitViewer ==
    /\ pdfLoaded = FALSE
    /\ examPaperImages = <<>>
    /\ markingSchemeImages = <<>>
    /\ messages = <<>>
    /\ sending = FALSE
    /\ sends = 0
    /\ lastSend = NoSend
    /\ request = <<>>
    /\ response = <<>>
    /\ conversation = <<>>

InitQueryIdle == query = <<>> /\ parsed = NoParse

NoExtraction == [done |-> FALSE, current |-> <<>>, aggressive |-> <<>>]

InitParseIdle == rawText = <<>> /\ extracted = NoExtraction

InitBatchIdle ==
    /\ todo = <<>>
    /\ batchStart = 0
    /\ inFlight = {}
    /\ settled = {}
    /\ results = <<>>
    /\ batchPc = "idle"

NoContent == [done |-> FALSE, gemini |-> <<>>, openai |-> <<>>, claude |-> <<>>]

InitProvidersIdle == provIn = <<>> /\ provOut = NoContent

InitAccessIdle == usageRow = <<>> /\ tracked = {} /\ calls = 0

InitChatIdle ==
    /\ assistant = "current"
    /\ examPaper = [id |-> ChatPaper, marking_schemes |-> FALSE]
    /\ schemeQuestions = {}
    /\ InitViewer

Init == InitIngest /\ InitDetectIdle /\ InitQueryIdle /\ InitParseIdle /\ InitAccessIdle /\ InitProvidersIdle /\ InitBatchIdle /\ InitChatIdle

\* the effect of a run with outcome out on the state
Ran(paper, pageImages, ocr, gemini, failed, out) ==
    /\ store' = out.store
    /\ bucket' = out.bucket
    /\ runs' = runs + 1
    /\ lastRun' = [paper |-> paper, pageImages |-> pageImages, ocr |-> ocr,
                   gemini |-> gemini, status |-> out.status,
                   questionsCount |-> out.questionsCount, written |-> out.written,
                   before |-> store, failed |-> failed, bucketBefore |-> bucket]
    /\ UNCHANGED <<variant, detectVars, queryVars, parseVars, chatVars, batchVars, providerVars, accessVars>>

ProcessUpsert ==
    /\ variant = "upsert"
    /\ runs < MaxRuns
    /\ \E paper \in Papers, pageImages \in PageImagesCatalogue, gem \in GeminiCatalogue,
          failed \in UploadFailures :
          Ran(paper, pageImages, <<>>, gem.items, failed,
              ProcessUpsertHandler(store, bucket, paper, pageImages, gem, failed))

ProcessInsert ==
    /\ variant = "insert"
    /\ runs < MaxRuns
    /\ \E paper \in Papers, pageImages \in PageImagesCatalogue, gem \in GeminiCatalogue,
          failed \in UploadFailures :
          Ran(paper, pageImages, <<>>, gem.items, failed,
              ProcessInsertHandler(store, bucket, paper, pageImages, gem, failed))

ProcessGemini ==
    /\ variant = "gemini"
    /\ runs < MaxRuns
    /\ \E paper \in Papers, pageImages \in PageImagesCatalogue, gem \in GeminiCatalogue,
          failed \in UploadFailures :
          Ran(paper, pageImages, <<>>, gem.items, failed,
              ProcessGeminiHandler(store, bucket, paper, pageImages, gem, failed))

ProcessMerge ==
    /\ variant = "merge"
    /\ runs < MaxRuns
    /\ \E paper \in Papers, ocr \in OcrCatalogue, geminiQuestions \in GeminiTextCatalogue :
          Ran(paper, PageImages(Len(ocr)), ocr, geminiQuestions, {},
              ProcessMergeHandler(store, bucket, paper, PageImages(Len(ocr)), ocr,
                                  geminiQuestions))

Next == ProcessUpsert \/ ProcessInsert \/ ProcessGemini \/ ProcessMerge

Spec == Init /\ [][Next]_vars

\* the detectors as pure functions of pagesWithOCR
InitDetect ==
    /\ variant = "merge"
    /\ store = <<>>
    /\ bucket = {}
    /\ runs = 0
    /\ lastRun = NoRun
    /\ detIn \in DetectorInputs
    /\ detOut = NoDetection
    /\ InitQueryIdle
    /\ InitParseIdle
    /\ InitAccessIdle
    /\ InitProvidersIdle
    /\ InitBatchIdle
    /\ InitChatIdle

Detect ==
    /\ ~detOut.done
    /\ detOut' = [done |-> TRUE,
                  regex |-> detectAndGroupQuestions(detIn),
                  main |-> QuestionDetector_detectAndGroupQuestions(detIn)]
    /\ UNCHANGED <<detIn, ingestVars, queryVars, parseVars, chatVars, batchVars, providerVars, accessVars>>

NextDetect == Detect

SpecDetect == InitDetect /\ [][NextDetect]_vars

\* the chat against a store that ingestion has filled
InitChat ==
    /\ \E ing \in ChatIngestions :
          /\ variant = ing.variant
          /\ store = ing.out.store
          /\ bucket = ing.out.bucket
    /\ runs = 0
    /\ lastRun = NoRun
    /\ InitDetectIdle
    /\ InitQueryIdle
    /\ InitParseIdle
    /\ InitAccessIdle
    /\ InitProvidersIdle
    /\ InitBatchIdle
    /\ assistant \in Assistants
    /\ \E scheme \in BOOLEAN :
          /\ examPaper = [id |-> ChatPaper, marking_schemes |-> scheme]
          /\ schemeQuestions = (IF scheme THEN {<<"1">>} ELSE {})
    /\ InitViewer

\* loadPdfBlob: the download and the rendering of the paper succeed or throw;
\* the marking scheme, when there is one, is loaded after the paper, and its
\* failure is caught
LoadPdfBlob ==
    /\ ~pdfLoaded
    /\ pdfLoaded' = TRUE
    /\ \E paperOk \in BOOLEAN, schemeOk \in BOOLEAN :
          /\ examPaperImages' = IF paperOk THEN ExamPageImages(ChatPages) ELSE <<>>
          /\ markingSchemeImages' = IF paperOk /\ schemeOk /\ examPaper.marking_schemes
                                    THEN SchemePageImages(SchemePages)
                                    ELSE <<>>
    /\ UNCHANGED <<ingestVars, detectVars, queryVars, parseVars, assistant, examPaper,
                   schemeQuestions, messages, sending,
                   sends, lastSend, request, response, conversation, batchVars, providerVars, accessVars>>

\* the state after handleSendMessage has built the request b for the message
Submit(userMessage, b) ==
    /\ messages' = Append(messages, UserMessage(userMessage))
    /\ sending' = ~b.alert
    /\ request' = IF b.alert THEN <<>> ELSE <<b.body>>
    /\ lastSend' = [userMessage |-> userMessage,
                    questionNumber |-> b.questionNumber,
                    questionData |-> b.questionData,
                    found |-> b.found,
                    fetched |-> b.fetched,
                    alert |-> b.alert]

\* handleSendMessage up to the POST to exam-assistant (or the alert)
HandleSendMessage ==
    /\ sends < MaxSends
    /\ ~sending
    /\ \E input \in Inputs, fetchOk \in BOOLEAN :
          /\ trim(input) # <<>>
          /\ Submit(trim(input),
                    BuildRequest(trim(input), examPaper, store, examPaperImages,
                                 markingSchemeImages, fetchOk))
    /\ response' = <<>>
    /\ sends' = sends + 1
    /\ UNCHANGED <<ingestVars, detectVars, queryVars, parseVars, assistant, examPaper,
                   schemeQuestions, pdfLoaded, examPaperImages, markingSchemeImages,
                   conversation, batchVars, providerVars, accessVars>>

\* the exam-assistant function handles the POST
ExamAssistant ==
    /\ request # <<>>
    /\ response = <<>>
    /\ \E providerOk \in BOOLEAN :
          response' = <<IF assistant = "earlier"
                         THEN ExamAssistantEarlierHandler(request[1], store, schemeQuestions,
                                                          providerOk)
                         ELSE ExamAssistantHandler(request[1], store, schemeQuestions,
                                                   providerOk)>>
    /\ UNCHANGED <<ingestVars, detectVars, queryVars, parseVars, assistant, examPaper,
                   schemeQuestions, pdfLoaded,
                   examPaperImages, markingSchemeImages, messages, sending, sends,
                   lastSend, request, conversation, batchVars, providerVars, accessVars>>

\* handleSendMessage after the response arrives: the answer is shown and
\* saveMessageToConversation saves the exchange (it saves nothing without a
\* user or when an insert fails); a response that is not ok throws, the
\* generic message is shown and nothing is saved
Receive ==
    /\ sending
    /\ response # <<>>
    /\ messages' = Append(messages,
                          IF response[1].status = 200
                          THEN AssistantMessage(response[1].answer[1])
                          ELSE AssistantMessage(GenericError))
    /\ \E saved \in BOOLEAN :
          conversation' = IF response[1].status = 200 /\ saved
                          THEN conversation \o <<UserMessage(lastSend.userMessage),
                                                  AssistantMessage(response[1].answer[1])>>
                          ELSE conversation
    /\ sending' = FALSE
    /\ UNCHANGED <<ingestVars, detectVars, queryVars, parseVars, assistant, examPaper,
                   schemeQuestions, pdfLoaded,
                   examPaperImages, markingSchemeImages, sends, lastSend, request, response, batchVars, providerVars, accessVars>>

NextChat == LoadPdfBlob \/ HandleSendMessage \/ ExamAssistant \/ Receive

SpecChat == InitChat /\ [][NextChat]_vars

\* the question-number extractors as functions of the query, and the lookup
\* of the chat client with the label it extracts
InitQuery ==
    /\ \E ing \in ChatIngestions :
          /\ variant = ing.variant
          /\ store = ing.out.store
          /\ bucket = ing.out.bucket
    /\ runs = 0
    /\ lastRun = NoRun
    /\ InitDetectIdle
    /\ query \in Queries
    /\ parsed = NoParse
    /\ InitParseIdle
    /\ InitAccessIdle
    /\ InitProvidersIdle
    /\ InitBatchIdle
    /\ InitChatIdle

\* the labels of the two extractors and the data of the lookup
Parsed(client, detector) ==
    [done |-> TRUE,
     client |-> client,
     clientData |-> IF client # <<>> THEN lookupQuestion(store, examPaper.id, client)
                    ELSE <<>>,
     detector |-> detector]

ParseQuery ==
    /\ ~parsed.done
    /\ parsed' = Parsed(extractQuestionNumber(query), parseQuestionNumberFromQuery(query))
    /\ UNCHANGED <<query, ingestVars, detectVars, parseVars, chatVars, batchVars, providerVars, accessVars>>

NextQuery == ParseQuery

SpecQuery == InitQuery /\ [][NextQuery]_vars

\* the parsers of the answer of Gemini as functions of its text
InitParse ==
    /\ variant = "insert"
    /\ store = <<>>
    /\ bucket = {}
    /\ runs = 0
    /\ lastRun = NoRun
    /\ InitDetectIdle
    /\ InitQueryIdle
    /\ rawText \in RawTexts
    /\ extracted = NoExtraction
    /\ InitAccessIdle
    /\ InitProvidersIdle
    /\ InitBatchIdle
    /\ InitChatIdle

Parse ==
    /\ ~extracted.done
    /\ extracted' = [done |-> TRUE,
                     current |-> <<parseQuestions(rawText)>>,
                     aggressive |-> <<parseQuestionsAggressive(rawText)>>]
    /\ UNCHANGED <<rawText, ingestVars, detectVars, queryVars, chatVars, batchVars, providerVars, accessVars>>

NextParse == Parse

SpecParse == InitParse /\ [][NextParse]_vars

\* extractFullTextForQuestions, called with 0..MaxQuestions valid questions
InitBatch ==
    /\ variant = "insert"
    /\ store = <<>>
    /\ bucket = {}
    /\ runs = 0
    /\ lastRun = NoRun
    /\ InitDetectIdle
    /\ InitQueryIdle
    /\ InitParseIdle
    /\ InitAccessIdle
    /\ InitProvidersIdle
    /\ InitChatIdle
    /\ \E n \in 0..MaxQuestions :
          todo = [k \in 1..n |-> Question(<<DigitSeq[k + 1]>>, 1, 1, <<"a">>)]
    /\ batchStart = 0
    /\ inFlight = {}
    /\ settled = {}
    /\ results = <<>>
    /\ batchPc = "loop"

\* a loop that starts the callbacks of every remaining question at once
StartAllAtOnce ==
    /\ batchPc = "loop"
    /\ batchStart < Len(todo)
    /\ inFlight' = (batchStart + 1)..Len(todo)
    /\ settled' = {}
    /\ batchPc' = "await"
    /\ UNCHANGED <<todo, batchStart, results, ingestVars, detectVars, queryVars, parseVars, chatVars, providerVars, accessVars>>

\* i < questions.length: batch = questions.slice(i, i + 3) and batch.map
\* starts the callback of every question of the batch
StartBatch ==
    /\ batchPc = "loop"
    /\ batchStart < Len(todo)
    /\ inFlight' = (batchStart + 1)..Min({batchStart + BatchSize, Len(todo)})
    /\ settled' = {}
    /\ batchPc' = "await"
    /\ UNCHANGED <<todo, batchStart, results, ingestVars, detectVars, queryVars, parseVars, chatVars, providerVars, accessVars>>

\* the callback of one question of the batch returns: its promise settles
Settle ==
    /\ batchPc = "await"
    /\ \E k \in inFlight :
          /\ inFlight' = inFlight \ {k}
          /\ settled' = settled \cup {k}
    /\ UNCHANGED <<todo, batchStart, results, batchPc, ingestVars, detectVars, queryVars, parseVars, chatVars, providerVars, accessVars>>

\* Promise.all resolves with the results in the order of the batch, they are
\* pushed, the delay passes and i += 3
Collect ==
    /\ batchPc = "await"
    /\ inFlight = {}
    /\ results' = results \o [j \in 1..Cardinality(settled) |-> todo[batchStart + j]]
    /\ batchStart' = batchStart + BatchSize
    /\ settled' = {}
    /\ batchPc' = "loop"
    /\ UNCHANGED <<todo, inFlight, ingestVars, detectVars, queryVars, parseVars, chatVars, providerVars, accessVars>>

\* the loop condition is false: return results
Return ==
    /\ batchPc = "loop"
    /\ batchStart >= Len(todo)
    /\ batchPc' = "done"
    /\ UNCHANGED <<todo, batchStart, inFlight, settled, results, ingestVars, detectVars, queryVars, parseVars, chatVars, providerVars, accessVars>>

NextBatch == StartBatch \/ Settle \/ Collect \/ Return

SpecBatch == InitBatch /\ [][NextBatch]_vars

\* the messages given to a provider: a system text, a user text, or a message
\* whose content is an array
ProviderMessages ==
    { [role |-> "system", content |-> "S", isString |-> TRUE],
      [role |-> "user", content |-> "U", isString |-> TRUE],
      [role |-> "user", content |-> "A", isString |-> FALSE] }

\* the sequences over S of length 0..n
SeqsUpTo(S, n) == UNION { [1..k -> S] : k \in 0..n }

\* the providers as functions of the messages and the images
InitProviders ==
    /\ variant = "insert"
    /\ store = <<>>
    /\ bucket = {}
    /\ runs = 0
    /\ lastRun = NoRun
    /\ InitDetectIdle
    /\ InitQueryIdle
    /\ InitParseIdle
    /\ InitAccessIdle
    /\ InitBatchIdle
    /\ InitChatIdle
    /\ \E ms \in SeqsUpTo(ProviderMessages, MaxMessages), ne \in 0..MaxImages, ns \in 0..MaxImages :
          provIn = <<[messages |-> ms,
                      examImages |-> [k \in 1..ne |-> Img("page", k)],
                      markingSchemeImages |-> [k \in 1..ns |-> Img("scheme", k)]]>>
    /\ provOut = NoContent

GenerateResponse ==
    /\ ~provOut.done
    /\ provIn # <<>>
    /\ provOut' = [done |-> TRUE,
                   gemini |-> GeminiParts(provIn[1].messages, provIn[1].examImages,
                                          provIn[1].markingSchemeImages),
                   openai |-> OpenAIContent(provIn[1].messages, provIn[1].examImages,
                                            provIn[1].markingSchemeImages),
                   claude |-> ClaudeContent(provIn[1].messages, provIn[1].examImages,
                                            provIn[1].markingSchemeImages)]
    /\ UNCHANGED <<provIn, ingestVars, detectVars, queryVars, parseVars, chatVars, batchVars, accessVars>>

NextProviders == GenerateResponse

SpecProviders == InitProviders /\ [][NextProviders]_vars

\* the chat when the POST is answered and the answer is handled
SpecChatFair == SpecChat /\ WF_vars(ExamAssistant) /\ WF_vars(Receive)

\* a free-plan user in one month, no usage row yet
InitAccess ==
    /\ variant = "insert"
    /\ store = <<>>
    /\ bucket = {}
    /\ runs = 0
    /\ lastRun = NoRun
    /\ InitDetectIdle
    /\ InitQueryIdle
    /\ InitParseIdle
    /\ InitBatchIdle
    /\ InitProvidersIdle
    /\ InitChatIdle
    /\ InitAccessIdle

\* trackPaperAccess: the rpc, then fetchSubscription reads the row again
TrackPaperAccess ==
    /\ calls < MaxCalls
    /\ \E paper_id \in AccessPapers :
          /\ usageRow' = track_paper_access(usageRow, paper_id)
          /\ tracked' = tracked \cup {paper_id}
    /\ calls' = calls + 1
    /\ UNCHANGED <<ingestVars, detectVars, queryVars, parseVars, chatVars, batchVars, providerVars>>

\* trackQuestionAsked: the rpc, then fetchSubscription reads the row again
TrackQuestionAsked ==
    /\ calls < MaxCalls
    /\ usageRow' = track_question_asked(usageRow)
    /\ calls' = calls + 1
    /\ UNCHANGED <<tracked, ingestVars, detectVars, queryVars, parseVars, chatVars, batchVars, providerVars>>

NextAccess == TrackPaperAccess \/ TrackQuestionAsked

SpecAccess == InitAccess /\ [][NextAccess]_vars

-----------------------------------------------------------------------------
(* Properties.                                                             *)

\* the rows of tbl with the given key
RowsWithKey(tbl, paper, qn) ==
    SelectSeq(tbl, LAMBDA r : r.exam_paper_id = paper /\ r.question_number = qn)

\* the page numbers 1..n in order
PagesUpTo(n) == [i \in 1..n |-> i]

\* the OCR texts of the three-page document of the end-to-end scenario
ScenarioOcr == <<Ok(Txt.calculate), Ok(Txt.continuation), Ok(Txt.solve)>>

\* C1: the regex + Gemini handler, run once on the three-page document with
\* OCR texts "1 Calculate x.\n...", "continuation", "2 Solve for y." (no
\* Gemini questions), leaves exactly two records in the store: question "1"
\* with pages [1, 2] and question "2" with pages [3].
C1_ScenarioYieldsTwoRecords ==
    (variant = "merge" /\ runs = 1 /\ lastRun.ocr = ScenarioOcr /\ lastRun.gemini = <<>>)
    => /\ Len(store) = 2
       /\ \E i \in 1..Len(store) :
             store[i].question_number = <<"1">> /\ store[i].page_numbers = <<1, 2>>
       /\ \E i \in 1..Len(store) :
             store[i].question_number = <<"2">> /\ store[i].page_numbers = <<3>>

\* the number of lines of a text that the QuestionDetector class takes as markers
MainMarkerLines(text) ==
    Cardinality({k \in 1..Len(split(text)) : MatchMainQuestionPattern(split(text)[k]) # <<>>})

\* the document has a marker of the regex detector on page 1 and on no other page
RegexMarkerOnPageOneOnly ==
    /\ Len(detIn) >= 1
    /\ DetectOnPage(detIn[1].ocrText) # <<>>
    /\ \A i \in 2..Len(detIn) : DetectOnPage(detIn[i].ocrText) = <<>>

\* the document has one marker line of the QuestionDetector class, on page 1
MainMarkerOnPageOneOnly ==
    /\ Len(detIn) >= 1
    /\ MainMarkerLines(detIn[1].ocrText) = 1
    /\ \A i \in 2..Len(detIn) : MainMarkerLines(detIn[i].ocrText) = 0

\* C2: for a document of N pages with a marker on page 1 and on no other
\* page, each text-pattern detector returns exactly one group, and the pages
\* of the group are 1..N.
C2_MarkerOnPageOneOnly ==
    detOut.done =>
        /\ RegexMarkerOnPageOneOnly =>
              /\ Len(detOut.regex) = 1
              /\ detOut.regex[1].pageNumbers = PagesUpTo(Len(detIn))
        /\ MainMarkerOnPageOneOnly =>
              /\ Len(detOut.main) = 1
              /\ detOut.main[1].pageNumbers = PagesUpTo(Len(detIn))

\* C2, reached: a document of several pages with the marker on page 1 only has
\* been grouped into one group of all its pages
C2_Witness ==
    /\ detOut.done
    /\ Len(detIn) >= 2
    /\ RegexMarkerOnPageOneOnly
    /\ detOut.regex[1].pageNumbers = PagesUpTo(Len(detIn))

IsLastWrite(i) ==
    \A j \in (i + 1)..Len(lastRun.written) :
        ~SameKey(lastRun.written[j], lastRun.written[i])

\* C4: after a run, the row of every key that the run wrote is the row that
\* the run wrote last for that key, in every field: nothing of an earlier
\* write of the key remains.
C4_SecondWriteReplaces ==
    \A i \in 1..Len(lastRun.written) :
        IsLastWrite(i) => \E k \in 1..Len(store) : store[k] = lastRun.written[i]

\* the text "Question " in front of a label
QuestionQuery(label) == <<"Q", "u", "e", "s", "t", "i", "o", "n", " ">> \o label

\* C6: every row that an ingestion run wrote is found by the lookup of the
\* chat client for the query "Question L", L being the label of the row as
\* written.
C6_WrittenLabelResolves ==
    \A k \in 1..Len(store) :
        lookupQuestion(store, store[k].exam_paper_id,
                       extractQuestionNumber(QuestionQuery(store[k].question_number)))
            = <<store[k]>>

\* the four ways of asking for question 1
QueriesForOne == {Typed.question1, Typed.q1, Typed.qDot1, Typed.bare1}

\* C5: for each of the queries "Question 1", "Q1", "q.1" and "1" each
\* question-number extractor (extractQuestionNumber of the chat client,
\* parseQuestionNumberFromQuery of the QuestionDetector class) returns the
\* label "1", and when the store holds a record of the paper under the key "1"
\* the lookup of the chat client returns that record.
C5_FourQueriesFindOne ==
    (parsed.done /\ query \in QueriesForOne) =>
        /\ parsed.client = <<"1">>
        /\ parsed.detector = <<"1">>
        /\ RowsWithKey(store, examPaper.id, <<"1">>) # <<>> =>
              parsed.clientData = RowsWithKey(store, examPaper.id, <<"1">>)

\* the request of the last message has been handled by exam-assistant
Handled == request # <<>> /\ response # <<>>

\* the AI provider was called for the last request
ProviderCalled == Handled /\ response[1].call # <<>>

\* the request of the last message has been handled by the current handler
HandledByCurrent == Handled /\ assistant = "current"

\* C7: a request with optimizedMode = false that carries the 5 page images of
\* the document makes the current exam-assistant handler send exactly these 5
\* images to the AI provider, whatever the store holds for the question.
C7_DisabledSendsAllPages ==
    (HandledByCurrent /\ request[1].optimizedMode = "false"
                      /\ request[1].examPaperImages = ExamPageImages(ChatPages))
    => /\ ProviderCalled
       /\ response[1].call[1].examImages = ExamPageImages(ChatPages)

\* C8: for the query "What is question 7 about?" on a paper with no record
\* "7" and with its page images loaded, the lookup finds no record, every page
\* image of the paper is sent to the AI provider, and when the provider answers
\* the response is a success and the message shown is the answer.
C8_MissFallsBack ==
    (lastSend.userMessage = Typed.what7 /\ RowsWithKey(store, examPaper.id, <<"7">>) = <<>>)
    => /\ lastSend.questionNumber = <<"7">>
       /\ ~lastSend.found
       /\ request # <<>> => request[1].examPaperImages = ExamPageImages(ChatPages)
       /\ Handled =>
             /\ ProviderCalled
             /\ response[1].call[1].examImages = ExamPageImages(ChatPages)
             /\ response[1].call[1].markingSchemeImages = request[1].markingSchemeImages
             /\ response[1].call[1].ok => response[1].status = 200
             /\ (response[1].call[1].ok /\ ~sending) =>
                   messages[Len(messages)] = AssistantMessage(Answer)

\* C8, reached: the query was answered from the whole paper
C8_Witness ==
    /\ lastSend.userMessage = Typed.what7
    /\ Handled
    /\ ~sending
    /\ response[1].status = 200
    /\ Len(response[1].call[1].examImages) = ChatPages

\* C9: when the client found the record and sends the request in optimized
\* mode, the current exam-assistant handler calls the AI provider with exactly
\* one exam image and at most one marking-scheme image.
C9_OptimizedSendsOneImage ==
    (HandledByCurrent /\ lastSend.found /\ request[1].optimizedMode = "true")
    => /\ ProviderCalled
       /\ Len(response[1].call[1].examImages) = 1
       /\ Len(response[1].call[1].markingSchemeImages) <= 1

\* C10: when the client found the record and the fetch of its image failed,
\* the page images of the whole paper are what the AI provider receives from
\* the current exam-assistant handler.
C10_FetchFailureSendsAllPages ==
    (HandledByCurrent /\ lastSend.found /\ lastSend.fetched = "failed")
    => /\ ProviderCalled
       /\ response[1].call[1].examImages = ExamPageImages(ChatPages)

\* the fallback state of exam-assistant with no page images in the request
NoImagesOutcome ==
    Handled /\ ~response[1].optimized /\ Len(request[1].examPaperImages) = 0

\* C11: when the fallback is reached without page images, the request ends
\* in the 'no exam paper images' outcome. In the client: the alert, no POST,
\* no assistant message. In exam-assistant: status 400 without a call of the
\* AI provider, and the client shows the generic error, not an answer. A POST
\* is only ever made by a message that the user submits (no automatic retry).
C11_NoImagesNoProviderCall ==
    /\ [](/\ lastSend.alert =>
                /\ request = <<>>
                /\ ~sending
                /\ messages[Len(messages)] = UserMessage(lastSend.userMessage)
          /\ NoImagesOutcome =>
                /\ response[1].status = 400
                /\ response[1].call = <<>>
                /\ ~sending => messages[Len(messages)] = AssistantMessage(GenericError))
    /\ [][request' # request => sends' = sends + 1]_vars

\* C11, reached: exam-assistant answered a request without images with 400
\* and the client has shown the error
C11_Witness ==
    /\ NoImagesOutcome
    /\ response[1].status = 400
    /\ ~sending
    /\ pdfLoaded

\* the complete objects of a text, in order
RECURSIVE ObjectsIn(_, _)
ObjectsIn(t, p) ==
    IF p > Len(t) THEN <<>>
    ELSE (IF IsObjectAt(t, p) THEN <<t[p + 1]>> ELSE <<>>) \o ObjectsIn(t, p + 1)

\* what may be missing at the end of a truncated array
Completions == { <<"]">>, <<"{", "a", "}", "]">>, <<"}", "]">> }

\* the text is an array of objects that was cut off before its closing bracket
IsTruncatedArray(t) ==
    /\ indexOf(t, "]", 1) = 0
    /\ \E c \in Completions : JSONparse(t \o c).kind = "array"

\* C12: for an answer that is a truncated array (no closing bracket) with 2
\* complete objects, extractAndSplitQuestions parses exactly these 2 objects:
\* it does not throw and it does not return fewer.
C12_SalvageReturnsBoth ==
    (extracted.done /\ IsTruncatedArray(rawText) /\ Len(ObjectsIn(rawText, 1)) = 2)
    => /\ extracted.current[1].ok
       /\ extracted.current[1].questions = ObjectsIn(rawText, 1)

\* the questions of the text-pattern detector in the last run
RegexOfLastRun == detectAndGroupQuestions(ocrPages(lastRun.pageImages, lastRun.ocr, 1))

\* the normalized key of a question number
NormalizedKey(qn) == toLowerCase(trim(qn))

\* the first question of the list with the given number
FirstWithNumber(questions, qn) ==
    questions[Min({i \in 1..Len(questions) : questions[i].questionNumber = qn})]

\* C13: in the merge of the regex + Gemini handler every question number of
\* the text-pattern detector keeps its text-pattern record, a Gemini item is
\* added only when its normalized number is absent from the text-pattern
\* numbers, and no two merged entries have the same normalized number.
C13_MergePrefersRegex ==
    (variant = "merge" /\ runs >= 1 /\ lastRun.status = 200)
    => /\ \A i \in 1..Len(RegexOfLastRun) :
             \E k \in 1..Len(lastRun.written) :
                lastRun.written[k] =
                    MergedRow(lastRun.paper,
                              FirstWithNumber(RegexOfLastRun, RegexOfLastRun[i].questionNumber))
       /\ \A k \in 1..Len(lastRun.written) :
             \/ \E i \in 1..Len(RegexOfLastRun) :
                   lastRun.written[k] = MergedRow(lastRun.paper, RegexOfLastRun[i])
             \/ \A i \in 1..Len(RegexOfLastRun) :
                   NormalizedKey(RegexOfLastRun[i].questionNumber)
                       # NormalizedKey(lastRun.written[k].question_number)
       /\ \A k \in 1..Len(lastRun.written), n \in 1..Len(lastRun.written) :
             NormalizedKey(lastRun.written[k].question_number)
                 = NormalizedKey(lastRun.written[n].question_number) => k = n

-----------------------------------------------------------------------------
(* Properties of the image composer and of the generative detector.        *)

GenerativeVariants == {"upsert", "insert", "gemini"}

\* the bytes of page n in the request of the last run
BytesOfPage(n) ==
    (CHOOSE p \in {lastRun.pageImages[k] : k \in 1..Len(lastRun.pageImages)} :
        p.pageNumber = n).base64Image

\* the image that the last run composed for a row it wrote
ComposedFor(r) ==
    IF variant = "insert"
    THEN [k \in 1..Len(r.page_numbers) |-> cropBarcodeFromBase64(BytesOfPage(r.page_numbers[k]))]
    ELSE <<Image(BytesOfPage(r.page_numbers[1]), FALSE)>>

\* the key under which the image of a row is stored
KeyOf(r) ==
    IF variant = "gemini" THEN fileNameQ(r.exam_paper_id, r.question_number)
    ELSE fileName(r.exam_paper_id, r.question_number)

\* the last image that the last run stored under the key of written[i]
IsLastStoreOfKey(i) ==
    /\ lastRun.written[i].image_url # <<>>
    /\ \A j \in 1..Len(lastRun.written) :
          (j > i /\ lastRun.written[j].image_url # <<>>)
          => KeyOf(lastRun.written[j]) # KeyOf(lastRun.written[i])

\* C14: the image of a question is stored under a key derived from the
\* document id and the question number only; storage never holds two images
\* under one key, and after a run the image under the key of a question it
\* composed is the one composed last in this run.
C14_OverwriteByKey ==
    /\ \A o1 \in bucket, o2 \in bucket : o1.name = o2.name => o1 = o2
    /\ (variant \in GenerativeVariants /\ runs >= 1 /\ lastRun.status = 200)
       => \A i \in 1..Len(lastRun.written) :
             /\ lastRun.written[i].image_url # <<>>
                => lastRun.written[i].image_url = KeyOf(lastRun.written[i])
             /\ IsLastStoreOfKey(i)
                => [name |-> KeyOf(lastRun.written[i]),
                    data |-> ComposedFor(lastRun.written[i])] \in bucket

\* C14, reached: a second run composed a question whose key already held a
\* different image, and the earlier image is gone
C14_Witness ==
    /\ variant \in GenerativeVariants
    /\ runs = 2
    /\ lastRun.status = 200
    /\ \E i \in 1..Len(lastRun.written), o \in lastRun.bucketBefore :
          /\ IsLastStoreOfKey(i)
          /\ o.name = KeyOf(lastRun.written[i])
          /\ o.data # ComposedFor(lastRun.written[i])
          /\ o \notin bucket

\* the valid questions of the last run, as the current handler filters them
ValidOfLastRun == extractAndSplitQuestions(lastRun.gemini)

\* a page of the request of the last run that belongs to question q does not decode
HasCorruptPage(q) ==
    \E k \in 1..Len(lastRun.pageImages) :
       /\ lastRun.pageImages[k].pageNumber >= q.startPage
       /\ lastRun.pageImages[k].pageNumber <= q.endPage
       /\ ~Decodes(lastRun.pageImages[k].base64Image)

\* C15: in the current handler a page image that does not decode does not
\* fail the composition of its question: every valid question that has pages
\* and whose upload did not fail is composed and written, for single-page and
\* multi-page boundaries alike, with the undecodable page left uncropped.
C15_CropFailureStillComposes ==
    (variant = "insert" /\ runs = 1 /\ lastRun.status = 200)
    => \A i \in 1..Len(ValidOfLastRun) :
          (/\ HasCorruptPage(ValidOfLastRun[i])
           /\ i \notin lastRun.failed)
          => \E k \in 1..Len(lastRun.written) :
                /\ lastRun.written[k].question_number = ValidOfLastRun[i].questionNumber
                /\ lastRun.written[k].page_numbers
                      = PageNumbersOf(relevantPages(lastRun.pageImages, ValidOfLastRun[i]))
                /\ [name |-> KeyOf(lastRun.written[k]),
                    data |-> ComposedFor(lastRun.written[k])] \in bucket

\* the items that the handler of the variant accepts as questions
ValidItems(items) ==
    IF variant = "gemini" THEN analyzeExamPaperWithGemini(items)
    ELSE extractAndSplitQuestions(items)

\* C16: a run of a generative handler in which the Gemini call fails or
\* returns no text, or in which no item is valid after the filter, answers
\* with an error status and writes no question record and no question image.
C16_NoQuestionsNoWrites ==
    [][(/\ variant \in GenerativeVariants
        /\ runs' = runs + 1
        /\ ValidItems(lastRun'.gemini) = <<>>)
       => (/\ lastRun'.status >= 400
           /\ lastRun'.written = <<>>
           /\ store' = store
           /\ bucket' = bucket)]_vars

\* C16, reached: after a run that stored questions, a run whose answer had
\* items but no valid one ended with an error and left store and bucket alone
C16_Witness ==
    /\ variant \in GenerativeVariants
    /\ runs = 2
    /\ lastRun.gemini # <<>>
    /\ ValidItems(lastRun.gemini) = <<>>
    /\ lastRun.status >= 400
    /\ store # <<>>
    /\ store = lastRun.before
    /\ bucket = lastRun.bucketBefore

\* the item has a question number, numeric pages and a text
IsComplete(item) ==
    /\ item.questionNumber # <<>>
    /\ item.pagesAreNumbers
    /\ item.fullText # <<>>

\* C17: every row that a generative handler writes has a non-empty question
\* number and a non-empty text and comes from an item with a numeric startPage
\* and a numeric endPage; an item that lacks one of these is never stored.
C17_StoredQuestionsAreComplete ==
    (variant \in GenerativeVariants /\ runs >= 1 /\ lastRun.status = 200)
    => \A k \in 1..Len(lastRun.written) :
          /\ lastRun.written[k].question_number # <<>>
          /\ lastRun.written[k].ocr_text # <<>>
          /\ \A i \in 1..Len(lastRun.gemini) :
                (/\ lastRun.gemini[i].questionNumber = lastRun.written[k].question_number
                 /\ lastRun.gemini[i].fullText = lastRun.written[k].ocr_text)
                => IsComplete(lastRun.gemini[i])

\* C18: when the first page of a document has no question marker, each
\* text-pattern detector opens a run as question "1" with that page attached:
\* the first group it returns is question "1" and starts at page 1.
C18_ImplicitQuestionOne ==
    detOut.done =>
        /\ DetectOnPage(detIn[1].ocrText) = <<>> =>
              /\ Len(detOut.regex) >= 1
              /\ detOut.regex[1].questionNumber = <<"1">>
              /\ detOut.regex[1].pageNumbers[1] = 1
        /\ (detIn[1].ocrText # <<>> /\ MainMarkerLines(detIn[1].ocrText) = 0) =>
              /\ Len(detOut.main) >= 1
              /\ detOut.main[1].questionNumber = <<"1">>
              /\ detOut.main[1].pageNumbers[1] = 1

\* C19: every question that a generative handler hands to its image composer
\* has startPage <= endPage, both within 1..N, N the number of pages of the
\* request.
C19_BoundariesWithinDocument ==
    (variant \in GenerativeVariants /\ runs >= 1 /\ lastRun.status = 200)
    => \A i \in 1..Len(ValidItems(lastRun.gemini)) :
          /\ ValidItems(lastRun.gemini)[i].startPage <= ValidItems(lastRun.gemini)[i].endPage
          /\ ValidItems(lastRun.gemini)[i].startPage >= 1
          /\ ValidItems(lastRun.gemini)[i].endPage <= Len(lastRun.pageImages)

\* the page numbers of a set, in ascending order
RECURSIVE AscendingOf(_)
AscendingOf(S) == IF S = {} THEN <<>> ELSE <<Min(S)>> \o AscendingOf(S \ {Min(S)})

\* the pages of a row, in ascending order
AscendingPages(r) == AscendingOf({r.page_numbers[k] : k \in 1..Len(r.page_numbers)})

\* C20: in the current handler the image stored for a question of several
\* pages consists of every page of the question, each with its top band
\* cropped, from top to bottom in ascending page order, whatever the order of
\* the pages in the request.
C20_StitchedInPageOrder ==
    (variant = "insert" /\ runs >= 1 /\ lastRun.status = 200)
    => \A i \in 1..Len(lastRun.written) :
          (IsLastStoreOfKey(i) /\ Len(lastRun.written[i].page_numbers) > 1)
          => [name |-> KeyOf(lastRun.written[i]),
              data |-> [k \in 1..Len(lastRun.written[i].page_numbers) |->
                          Image(BytesOfPage(AscendingPages(lastRun.written[i])[k]), TRUE)]]
                 \in bucket

-----------------------------------------------------------------------------
(* Properties of failure isolation, of the providers and of the quota.     *)

\* the image of the i-th valid question of the last run failed: no page, an
\* upload error, or a stitch that threw
ImageFailed(i) ==
    \/ Len(relevantPages(lastRun.pageImages, ValidOfLastRun[i])) = 0
    \/ i \in lastRun.failed
    \/ /\ variant = "insert"
       /\ Len(relevantPages(lastRun.pageImages, ValidOfLastRun[i])) > 1
       /\ HasCorruptPage(ValidOfLastRun[i])

\* the row that the last run writes for its i-th valid question
RowOfValid(i) ==
    Row(lastRun.paper, ValidOfLastRun[i].questionNumber,
        PageNumbersOf(relevantPages(lastRun.pageImages, ValidOfLastRun[i])),
        ValidOfLastRun[i].fullText,
        fileName(lastRun.paper, ValidOfLastRun[i].questionNumber))

\* C21: in the handlers that skip a question whose image fails, the failure
\* of one question does not abort the others: the run answers 200, and every
\* valid question whose own image did not fail is written and the store holds
\* a row under its key.
C21_FailureIsolated ==
    (/\ variant \in {"insert", "upsert"}
     /\ runs >= 1
     /\ ValidOfLastRun # <<>>)
    => /\ lastRun.status = 200
       /\ \A j \in 1..Len(ValidOfLastRun) :
             ~ImageFailed(j)
             => /\ \E k \in 1..Len(lastRun.written) : lastRun.written[k] = RowOfValid(j)
                /\ \E n \in 1..Len(store) : SameKey(store[n], RowOfValid(j))

\* C21, reached: the image of the first question failed and a later question
\* of the same run was stored
C21_Witness ==
    /\ variant = "insert"
    /\ runs = 1
    /\ lastRun.status = 200
    /\ Len(ValidOfLastRun) >= 2
    /\ ImageFailed(1)
    /\ ~ImageFailed(2)
    /\ \E n \in 1..Len(store) : store[n] = RowOfValid(2)

\* C22: extractFullTextForQuestions never has more than 3 extractions in
\* flight, starts the extractions of a batch only when none is in flight and
\* the results of every earlier question are in the results array, and returns
\* exactly the questions it was given, in their order.
C22_BoundedBatches ==
    /\ [](/\ Cardinality(inFlight) <= BatchSize
          /\ batchPc = "done" => results = todo)
    /\ [][(inFlight' \ inFlight # {})
          => (inFlight = {} /\ Len(results) = batchStart)]_vars

\* C22, reached: a call with more than two batches of questions has returned
C22_Witness ==
    /\ batchPc = "done"
    /\ Len(todo) > 2 * BatchSize
    /\ results = todo

\* the AI provider was called for the last request and its call failed
ProviderFailed == ProviderCalled /\ ~response[1].call[1].ok

\* C23: when the call of the AI provider fails, exam-assistant answers with an
\* error status, with the message of the provider and without an answer; the
\* chat then shows the generic message, as the only assistant message after
\* the user message, and the exchange is not saved to the conversation.
C23_ProviderFailureIsGeneric ==
    /\ [](ProviderFailed
          => /\ response[1].status = 500
             /\ response[1].answer = <<>>
             /\ response[1].details = <<ProviderErrorMessage>>
             /\ ~sending
                => /\ messages[Len(messages)] = AssistantMessage(GenericError)
                   /\ messages[Len(messages) - 1] = UserMessage(lastSend.userMessage))
    /\ [][(ProviderFailed /\ sending /\ ~sending')
          => /\ messages' = Append(messages, AssistantMessage(GenericError))
             /\ conversation' = conversation]_vars

\* C23, reached: after an exchange that was saved, the provider failed for the
\* next message, the generic message is shown and the conversation holds only
\* the first exchange
C23_Witness ==
    /\ ProviderFailed
    /\ ~sending
    /\ sends = 2
    /\ Len(conversation) = 2
    /\ messages[Len(messages)] = AssistantMessage(GenericError)

\* C24: when exam-assistant answers in optimized mode for a question number,
\* the marking-scheme images given to the AI provider are the image of that
\* question in the linked marking scheme when the scheme has one, and none
\* otherwise.
C24_SchemeOfTheQuestionOnly ==
    (ProviderCalled /\ response[1].optimized /\ response[1].questionNumber # <<>>)
    => response[1].call[1].markingSchemeImages
          = IF examPaper.marking_schemes /\ response[1].questionNumber \in schemeQuestions
            THEN <<Img("scheme-question", response[1].questionNumber)>>
            ELSE <<>>

\* what a part of a request content says: a text, or the bytes of an image
PartOf(part) ==
    IF "text" \in DOMAIN part THEN [text |-> part.text]
    ELSE IF "inlineData" \in DOMAIN part THEN [image |-> part.inlineData.data]
    ELSE IF "image_url" \in DOMAIN part THEN [image |-> part.image_url.url[2]]
    ELSE [image |-> part.source.data]

PartsOf(content) == [k \in 1..Len(content) |-> PartOf(content[k])]

\* the content that the providers are to build
ExpectedParts ==
    [k \in 1..Len(StringMessages(provIn[1].messages)) |->
        [text |-> <<StringMessages(provIn[1].messages)[k].content>>]]
    \o <<[text |-> <<ExamHeader>>]>>
    \o [k \in 1..Len(provIn[1].examImages) |-> [image |-> provIn[1].examImages[k]]]
    \o (IF Len(provIn[1].markingSchemeImages) > 0
        THEN <<[text |-> <<SchemeHeader>>]>>
             \o [k \in 1..Len(provIn[1].markingSchemeImages) |->
                   [image |-> provIn[1].markingSchemeImages[k]]]
        ELSE <<>>)

\* C25: for the same messages and images the Gemini, OpenAI and Claude
\* providers build the same ordered content: the texts of the messages as they
\* are, the exam-paper header and the exam images, then the marking-scheme
\* header and images when there is a marking-scheme image.
C25_ProvidersBuildSameContent ==
    provOut.done
    => /\ PartsOf(provOut.gemini) = ExpectedParts
       /\ PartsOf(provOut.openai) = ExpectedParts
       /\ PartsOf(provOut.claude) = ExpectedParts

\* the number of rows that the last run added to exam_questions
PersistedByLastRun == Len(store) - Len(lastRun.before)

\* C26: the question count in the response of a run of the inserting handler
\* is the number of question records that the run persisted, also when the
\* storage stage fails for some of the questions.
C26_CountIsPersisted ==
    (variant = "insert" /\ runs >= 1) => lastRun.questionsCount = PersistedByLastRun

\* the rows of the document of the last run whose page_numbers hold page p
RowsWithPage(p) ==
    {i \in 1..Len(store) : /\ store[i].exam_paper_id = lastRun.paper
                           /\ \E k \in 1..Len(store[i].page_numbers) :
                                 store[i].page_numbers[k] = p}

\* C27: after a run of the regex + Gemini handler every page image of the
\* request is in the page_numbers of exactly one question record of the
\* document, also when the OCR of a page fails.
C27_PagesPartitioned ==
    (variant = "merge" /\ runs >= 1 /\ lastRun.status = 200)
    => \A i \in 1..Len(lastRun.pageImages) :
          Cardinality(RowsWithPage(lastRun.pageImages[i].pageNumber)) = 1

\* C28: within one document two records with different question numbers
\* never point to the same stored image.
C28_DistinctKeys ==
    (variant \in GenerativeVariants)
    => \A i, j \in 1..Len(store) :
          (/\ store[i].exam_paper_id = store[j].exam_paper_id
           /\ store[i].question_number # store[j].question_number
           /\ store[i].image_url # <<>>)
          => store[i].image_url # store[j].image_url

\* every user message is followed by one assistant message before the next
\* user message; the last user message is waiting for it while sending
OneAnswerPerUserMessage ==
    \A i \in 1..Len(messages) :
       messages[i].role = "user"
       => IF i = Len(messages) THEN sending
          ELSE /\ messages[i + 1].role = "assistant"
               /\ (i + 2 <= Len(messages) => messages[i + 2].role = "user")

\* C29: in the chat a send is accepted only when no send is in flight, every
\* accepted send eventually resets sending, and every user message of the
\* list is followed by exactly one assistant message before the next user
\* message.
C29_OneSendOneAnswer ==
    /\ [](OneAnswerPerUserMessage)
    /\ [][(sends' # sends) => ~sending]_vars
    /\ (sending ~> ~sending)

\* how many elements of papers_accessed are x
TimesAccessed(x) ==
    IF usageRow = <<>> THEN 0
    ELSE Cardinality({k \in 1..Len(usageRow[1].papers_accessed) :
                         usageRow[1].papers_accessed[k] = x})

\* C30: for a free-plan user, after any sequence of track_paper_access calls
\* papers_accessed holds each accessed paper once and nothing else, and a
\* paper is accessible whenever it was accessed already or fewer than
\* max_papers distinct papers were accessed.
C30_ReopeningIsFree ==
    /\ \A p \in AccessPapers : TimesAccessed(p) = (IF p \in tracked THEN 1 ELSE 0)
    /\ TimesAccessed("NULL") = 0
    /\ \A p \in AccessPapers :
          (p \in tracked \/ Cardinality(tracked) < max_papers)
          => (canAccessPaper(usageRow, p) /\ can_access_paper(usageRow, p) = "true")

====
